---- MODULE Spec2Model ----
(***************************************************************************)
(* Staffing-coverage calculator of the Facilities-Hub dashboard:           *)
(* isEscala12x36, getEfetivoPlanejadoAjustado and getCoberturaParaPosto.   *)
(* A caller (the rendering code) holds a post record and calls the three   *)
(* functions on it; the model records each call's arguments and outcome.   *)
(***************************************************************************)
EXTENDS Integers, Sequences, FiniteSets, TLC

(* ---------------- bounds of the explored input space ---------------- *)
\* longest run of whitespace put before and after a shift label
MaxPad == 1
\* planned headcounts range over -MaxEfetivo..MaxEfetivo
MaxEfetivo == 6
\* active counts range over 0..MaxAtivos
MaxAtivos == 7
\* calls are counted up to MaxChamadas
MaxChamadas == 2
\* callers that run the calculator at the same time
NCallers == 2
\* the random ordem of a checklist item is drawn from 1..MaxOrdem
MaxOrdem == 2

(* ---------------- state ---------------- *)
VARIABLES
  posto,                \* the post record the caller holds
  colaboradoresAtivos,  \* active count passed to the last getCoberturaParaPosto call
  op,                   \* the function called last, "none" before any call
  ret,                  \* outcome of the last call
  entrada,              \* the post record passed to the last call, as it was when the call began
  referencia,           \* the first call made: its function, arguments and outcome
  chamadas,             \* calls of the two exported functions so far, counted up to MaxChamadas
  frames,               \* per concurrent caller: the activation record of its call in progress
  pagina,               \* the page component mounted in the browser, "nenhuma" when none is
  supabase,             \* the backend tables the pages read and write
  pedido,               \* the write of the handleSubmit in progress, once the backend has made it
  checklistRespostas,   \* state of the ChecklistRespostas component
  checklistItens,       \* state of the ChecklistItens component
  outraSessao,          \* ChecklistItens open in a second browser: its handleSubmit in progress
  execucaoChecklist,    \* state of the ChecklistExecucoes component that schedules executions
  checklistExecucoes,   \* form state of the ChecklistExecucoes component that records executions
  checklist,            \* state of the Checklist component
  painel,               \* ChecklistExecucoes (recording): loaded executions and selected month
  colaboradores,        \* state of the Colaboradores component
  checklistCadastro     \* state of the Checklist component of the table checklist

calcVars == <<posto, colaboradoresAtivos, op, ret, entrada, referencia, chamadas>>
concVars == <<frames>>
pagVars == <<pagina, supabase, pedido, checklistRespostas, checklistItens, outraSessao,
            execucaoChecklist, checklistExecucoes, checklist, painel, colaboradores,
            checklistCadastro>>

vars == <<calcVars, concVars, pagVars>>

(* ---------------- JavaScript values ---------------- *)
\* a string is a sequence of one-character strings
Undefined == [t |-> "undefined"]
Null == [t |-> "null"]
Str(s) == [t |-> "string", s |-> s]
Num(n) == [t |-> "number", n |-> n]

\* outcome of a call: a returned value or a thrown error
Return(v) == [kind |-> "return", value |-> v]
Throw(e) == [kind |-> "throw", error |-> e]
None == [kind |-> "none"]

\* ToBoolean: undefined, null, "" and 0 are falsy
Truthy(v) ==
  CASE v.t = "undefined" -> FALSE
    [] v.t = "null" -> FALSE
    [] v.t = "string" -> v.s # <<>>
    [] v.t = "number" -> v.n # 0

WhiteSpace == {" ", "\t", "\n"}

RECURSIVE TrimStart(_)
TrimStart(s) ==
  IF s = <<>> THEN s
  ELSE IF Head(s) \in WhiteSpace THEN TrimStart(Tail(s)) ELSE s

RECURSIVE TrimEnd(_)
TrimEnd(s) ==
  IF s = <<>> THEN s
  ELSE IF s[Len(s)] \in WhiteSpace THEN TrimEnd(SubSeq(s, 1, Len(s) - 1)) ELSE s

\* String.prototype.trim
trim(s) == TrimEnd(TrimStart(s))

LowerChar(c) ==
  CASE c = "X" -> "x"
    [] c = "D" -> "d"
    [] c = "I" -> "i"
    [] c = "A" -> "a"
    [] OTHER -> c

\* String.prototype.toLowerCase
toLowerCase(s) == [i \in 1..Len(s) |-> LowerChar(s[i])]

Max(a, b) == IF a >= b THEN a ELSE b
Min(a, b) == IF a <= b THEN a ELSE b

(* ---------------- the calculator ---------------- *)
MIN_EFETIVO_ESCALA_12X36 == 4

Label12x36 == <<"1", "2", "x", "3", "6">>

\* the comparison made on the untrimmed string
isEscala12x36_semTrim(escala) ==
  IF ~Truthy(escala) THEN Return(FALSE)
  ELSE IF escala.t # "string" THEN Throw("TypeError")
  ELSE Return(toLowerCase(escala.s) = Label12x36)

\* the early return on a falsy value left out
isEscala12x36_semGuarda(escala) ==
  IF escala.t # "string" THEN Throw("TypeError")
  ELSE Return(toLowerCase(trim(escala.s)) = Label12x36)

isEscala12x36(escala) ==
  IF ~Truthy(escala) THEN Return(FALSE)
  ELSE IF escala.t # "string" THEN Throw("TypeError")
  ELSE Return(toLowerCase(trim(escala.s)) = Label12x36)

\* the "> 0" test left out
baseEfetivo_semPositivo(p) ==
  IF Truthy(p.efetivo_planejado) /\ p.efetivo_planejado.t = "number"
  THEN p.efetivo_planejado.n
  ELSE 1

\* a default of 0 in place of 1
baseEfetivo_padraoZero(p) ==
  IF Truthy(p.efetivo_planejado)
     /\ p.efetivo_planejado.t = "number"
     /\ p.efetivo_planejado.n > 0
  THEN p.efetivo_planejado.n
  ELSE 0

\* posto.efetivo_planejado && posto.efetivo_planejado > 0 ? posto.efetivo_planejado : 1
baseEfetivo(p) ==
  IF Truthy(p.efetivo_planejado)
     /\ p.efetivo_planejado.t = "number"
     /\ p.efetivo_planejado.n > 0
  THEN p.efetivo_planejado.n
  ELSE 1

\* a 12x36 post gets the constant, whatever its planned headcount
getEfetivoPlanejadoAjustado_constante(p) ==
  LET is12 == isEscala12x36(p.escala) IN
  IF is12.kind = "throw" THEN is12
  ELSE IF is12.value THEN Return(MIN_EFETIVO_ESCALA_12X36)
  ELSE Return(baseEfetivo(p))

\* the floor applied to every post
getEfetivoPlanejadoAjustado_pisoSempre(p) ==
  LET is12 == isEscala12x36(p.escala) IN
  IF is12.kind = "throw" THEN is12
  ELSE Return(Max(baseEfetivo(p), MIN_EFETIVO_ESCALA_12X36))

\* the 12x36 branch left out
getEfetivoPlanejadoAjustado_semPiso(p) ==
  LET is12 == isEscala12x36(p.escala) IN
  IF is12.kind = "throw" THEN is12
  ELSE Return(baseEfetivo(p))

\* the last result kept in a module-level cache keyed by the shift type alone
getEfetivoPlanejadoAjustado_cache(p) ==
  LET is12 == isEscala12x36(p.escala) IN
  IF op \in {"getEfetivoPlanejadoAjustado", "getCoberturaParaPosto"}
     /\ ret.kind = "return"
     /\ entrada.escala = p.escala
  THEN (IF op = "getEfetivoPlanejadoAjustado" THEN ret
        ELSE Return(ret.value.efetivoNecessario))
  ELSE IF is12.kind = "throw" THEN is12
  ELSE IF is12.value THEN Return(Max(baseEfetivo(p), MIN_EFETIVO_ESCALA_12X36))
  ELSE Return(baseEfetivo(p))

getEfetivoPlanejadoAjustado(p) ==
  LET is12 == isEscala12x36(p.escala) IN
  IF is12.kind = "throw" THEN is12
  ELSE IF is12.value THEN Return(Max(baseEfetivo(p), MIN_EFETIVO_ESCALA_12X36))
  ELSE Return(baseEfetivo(p))

\* Math.max in place of Math.min
getCoberturaParaPosto_max(ativos, p) ==
  LET nec == getEfetivoPlanejadoAjustado(p) IN
  IF nec.kind = "throw" THEN nec
  ELSE Return([efetivoNecessario |-> nec.value,
               efetivoConsiderado |-> Max(ativos, nec.value),
               estaCoberto |-> ativos >= nec.value])

\* ">" in place of ">="
getCoberturaParaPosto_estrito(ativos, p) ==
  LET nec == getEfetivoPlanejadoAjustado(p) IN
  IF nec.kind = "throw" THEN nec
  ELSE Return([efetivoNecessario |-> nec.value,
               efetivoConsiderado |-> Min(ativos, nec.value),
               estaCoberto |-> ativos > nec.value])

\* the active count reported without the cap
getCoberturaParaPosto_semTeto(ativos, p) ==
  LET nec == getEfetivoPlanejadoAjustado(p) IN
  IF nec.kind = "throw" THEN nec
  ELSE Return([efetivoNecessario |-> nec.value,
               efetivoConsiderado |-> ativos,
               estaCoberto |-> ativos >= nec.value])

\* the considered count compared with the active count
getCoberturaParaPosto_operandos(ativos, p) ==
  LET nec == getEfetivoPlanejadoAjustado(p) IN
  IF nec.kind = "throw" THEN nec
  ELSE Return([efetivoNecessario |-> nec.value,
               efetivoConsiderado |-> Min(ativos, nec.value),
               estaCoberto |-> Min(ativos, nec.value) >= ativos])

getCoberturaParaPosto(ativos, p) ==
  LET nec == getEfetivoPlanejadoAjustado(p) IN
  IF nec.kind = "throw" THEN nec
  ELSE Return([efetivoNecessario |-> nec.value,
               efetivoConsiderado |-> Min(ativos, nec.value),
               estaCoberto |-> ativos >= nec.value])

(* ---------------- inputs ---------------- *)
Pads == UNION {[1..n -> {" ", "\t"}] : n \in 0..MaxPad}

Cores == { <<>>,
           <<"1", "2", "x", "3", "6">>,
           <<"1", "2", "X", "3", "6">>,
           <<"1", "2", "x", "3", "7">>,
           <<"1", "2", " ", "x", "3", "6">>,
           <<"D", "i", "a">> }

EscalaStrings == {l \o c \o r : l \in Pads, c \in Cores, r \in Pads}

Escalas == {Undefined, Null} \cup {Str(s) : s \in EscalaStrings}

Efetivos == {Undefined, Null} \cup {Num(n) : n \in (0 - MaxEfetivo)..MaxEfetivo}

Postos == [escala : Escalas, efetivo_planejado : Efetivos]

Ativos == 0..MaxAtivos

(* ---------------- parts of the state a specification leaves idle ---------------- *)
Callers == 1..NCallers

\* no call in progress: the locals of a frame hold nothing yet
FrameIdle == [pc |-> "idle", fn |-> "none", posto |-> [escala |-> Undefined, efetivo_planejado |-> Undefined],
              ativos |-> 0, baseEfetivo |-> 0, is12 |-> FALSE, nec |-> 0, cons |-> 0, ret |-> None]

ConcParado == frames = [c \in Callers |-> FrameIdle]

(* ---------------- pages: values shared by the forms ---------------- *)
\* editingId of a form that edits no row
NullId == "null"

\* ids of the rows of checklist_execucoes and of checklist_respostas
ExecIds == {"e1"}
RespIds == {"r1", "r2"}

StatusExecucao == {"em_andamento", "concluido"}

\* texts typed in a free-text field
Textos == {<<>>, <<" ">>, <<" ", "a">>}

\* value.trim() || null
TrimOuNull(txt) == IF trim(txt) = <<>> THEN Null ELSE Str(trim(txt))

SemPedido == [tabela |-> "nenhuma"]

\* values of a date input: the empty field, a date, a non-empty string that new Date()
\* does not parse
DatasDigitadas == {"", "d1", "invalida"}

\* new Date(str) is not an Invalid Date
DataValida(str) == str = "d1"

\* new Date(str).toISOString() of a date that is valid
toISOString(str) == IF str = "d1" THEN "d1Z" ELSE "RangeError"

\* handleSubmit ended by an exception nothing catches
HsAbortado == [pc |-> "abortado"]

\* no handleSubmit in progress
HsIdle == [pc |-> "idle"]

(* ---------------- ChecklistRespostas ---------------- *)
RespostasInitialForm == [execucao_id |-> "", resposta |-> <<>>, created_at |-> ""]

\* useState initial values; "ausente" marks an execution that is not in the loaded list
RespostasInicial ==
  [execucoes |-> [e \in ExecIds |-> "ausente"],
   formData |-> RespostasInitialForm,
   editingId |-> NullId,
   saving |-> FALSE,
   toast |-> "none",
   hs |-> HsIdle]

\* rows of checklist_respostas shown in the table, which handleEdit can be given
RespostaRows == [id : RespIds, execucao_id : ExecIds \cup {NullId}, resposta : {Null, Str(<<"a">>)}]

(* ---------------- ChecklistItens ---------------- *)
ItemIds == {"i1", "i2"}

ItensInitialForm == [checklist_id |-> "", descricao |-> <<>>]

ItensInicial ==
  [formData |-> ItensInitialForm,
   editingId |-> NullId,
   saving |-> FALSE,
   toast |-> "none",
   hs |-> HsIdle]

\* the table as a function from row id to ordem; 0 stands for a row that does not exist
ItensVazia == [i \in ItemIds |-> 0]

(* ---------------- ChecklistExecucoes (scheduling, table execucao_checklist) ---------------- *)
AgendaIds == {"x1", "x2"}
SupervisorIds == {"s1"}

\* useState<ExecucaoForm>({ ..., supervisor_id: "none", ... })
AgendaFormInicial == [checklist_id |-> "", data_prevista |-> "", supervisor_id |-> "none"]

AgendaInicial ==
  [formData |-> AgendaFormInicial,
   editingId |-> NullId,
   saving |-> FALSE,
   toast |-> "none",
   hs |-> HsIdle]

\* the table as a function from row id to supervisor_id; "ausente" stands for a row that
\* does not exist and NullId for a null supervisor_id
AgendaVazia == [i \in AgendaIds |-> "ausente"]

(* ---------------- ChecklistExecucoes (recording, table checklist_execucoes) ---------------- *)
\* rows inserted into checklist_execucoes besides those of ExecIds
MaxNovas == 1

ExecucoesInitialForm ==
  [checklist_id |-> "", colaborador_id |-> "", data_execucao |-> "", status |-> "em_andamento"]

ExecucoesInicial ==
  [formData |-> ExecucoesInitialForm,
   editingId |-> NullId,
   saving |-> FALSE,
   toast |-> "none",
   hs |-> HsIdle]

(* ---------------- Checklist ---------------- *)
ChecklistIds == {"k1"}

ChecklistInitialForm == [nome |-> <<>>]

ChecklistInicial ==
  [formData |-> ChecklistInitialForm,
   editingId |-> NullId,
   saving |-> FALSE,
   toast |-> "none",
   hs |-> HsIdle]

(* ---------------- ChecklistExecucoes (recording): the concluded counter ---------------- *)
\* executions in the loaded list
MaxExecucoes == 2
\* months, in UTC, of the dates of the executions
MaxMeses == 1
\* the first of these months, counted in months from year 0: December 2024
PrimeiroMes == 24299

MesesUTC == PrimeiroMes..(PrimeiroMes + MaxMeses - 1)

\* a timestamp: its month in UTC and whether it lies within the timezone offset of the
\* start or of the end of that month
Data(mes, borda) == [t |-> "data", mes |-> mes, borda |-> borda]

Datas == {Data(m, b) : m \in MesesUTC, b \in {"inicio", "meio", "fim"}}

\* the browser's timezone: behind UTC, UTC, ahead of UTC
Fusos == {-1, 0, 1}

\* the month of new Date(d) in the browser's timezone
MesLocal(d, fuso) ==
  IF d.borda = "inicio" /\ fuso < 0 THEN d.mes - 1
  ELSE IF d.borda = "fim" /\ fuso > 0 THEN d.mes + 1
  ELSE d.mes

\* "yyyy-MM" of a month counted from year 0
FormatoAnoMes(m) == <<m \div 12, (m % 12) + 1>>

\* format(new Date(d), "yyyy-MM")
format(d, fuso) == FormatoAnoMes(MesLocal(d, fuso))

\* the empty string as a selected month
MesVazio == <<>>

ExecucaoRows == [status : StatusExecucao, data_execucao : {Null} \cup Datas]

RECURSIVE ListasAte(_)
ListasAte(n) ==
  IF n = 0 THEN {<<>>}
  ELSE LET menores == ListasAte(n - 1)
       IN menores \cup {Append(l, r) : l \in {m \in menores : Len(m) = n - 1}, r \in ExecucaoRows}

\* the lists fetchExecucoes can load
ListasExecucoes == ListasAte(MaxExecucoes)

PainelInicial == [execucoes |-> <<>>, selectedMonth |-> MesVazio, fuso |-> 0]

(* ---------------- Colaboradores ---------------- *)
\* active units the unidades query can return
MaxUnidades == 2
\* rows the colaboradores query can return
MaxColaboradores == 2

\* the data of a query that has loaded n rows
Arr(n) == [t |-> "array", length |-> n]

\* the i-th row of the colaboradores query
Colaborador(i) == [t |-> "object", linha |-> i]

ColaboradoresInicial ==
  [unidades |-> Undefined,
   lista |-> Undefined,
   showForm |-> FALSE,
   editingColaborador |-> Null,
   showRequisitosMissing |-> FALSE,
   missingEntities |-> <<>>]

(* ---------------- Checklist (table checklist) ---------------- *)
CadastroIds == {"b1"}

\* useState<ChecklistForm>({ nome: "", ..., contrato_id: "none", ... })
CadastroFormInicial == [nome |-> <<>>, contrato_id |-> "none"]

CadastroInicial ==
  [formData |-> CadastroFormInicial,
   editingId |-> NullId,
   saving |-> FALSE,
   toast |-> "none",
   hs |-> HsIdle]

\* the table as a function from row id to the row, existe = FALSE for a row that does not exist
CadastroVazia == [b \in CadastroIds |-> [existe |-> FALSE, nome |-> <<>>, contrato_id |-> NullId]]

\* the table as a function from row id to the row, existe = FALSE for a row that does not exist
ChecklistsVazia == [k \in ChecklistIds |-> [existe |-> FALSE, nome |-> <<>>]]

SupabaseInicial == [checklist_execucoes |-> [e \in ExecIds |-> "em_andamento"],
                    checklist_execucoes_novas |-> 0,
                    checklist_itens |-> ItensVazia,
                    execucao_checklist |-> AgendaVazia,
                    checklists |-> ChecklistsVazia,
                    checklist |-> CadastroVazia]

PagParada ==
  /\ pagina = "nenhuma"
  /\ supabase = SupabaseInicial
  /\ pedido = SemPedido
  /\ checklistRespostas = RespostasInicial
  /\ checklistItens = ItensInicial
  /\ outraSessao = HsIdle
  /\ execucaoChecklist = AgendaInicial
  /\ checklistExecucoes = ExecucoesInicial
  /\ checklist = ChecklistInicial
  /\ painel = PainelInicial
  /\ colaboradores = ColaboradoresInicial
  /\ checklistCadastro = CadastroInicial

\* the calculator's sequential caller before any call, on a fixed post
CalcParado ==
  /\ posto = [escala |-> Undefined, efetivo_planejado |-> Undefined]
  /\ colaboradoresAtivos = 0
  /\ op = "none"
  /\ ret = None
  /\ entrada = posto
  /\ referencia = None
  /\ chamadas = 0

(* ---------------- the caller ---------------- *)
Init ==
  /\ posto \in Postos
  /\ colaboradoresAtivos = 0
  /\ op = "none"
  /\ ret = None
  /\ entrada = posto
  /\ referencia = None
  /\ chamadas = 0
  /\ ConcParado
  /\ PagParada

CallIsEscala12x36 ==
  /\ entrada' = posto
  /\ op' = "isEscala12x36"
  /\ ret' = isEscala12x36(posto.escala)
  /\ UNCHANGED <<posto, colaboradoresAtivos, referencia, chamadas>>
  /\ UNCHANGED <<concVars, pagVars>>

CallGetEfetivoPlanejadoAjustado ==
  /\ entrada' = posto
  /\ op' = "getEfetivoPlanejadoAjustado"
  /\ ret' = getEfetivoPlanejadoAjustado(posto)
  /\ referencia' = IF referencia = None
                   THEN [op |-> op', posto |-> posto, ativos |-> 0, ret |-> ret']
                   ELSE referencia
  /\ chamadas' = Min(chamadas + 1, MaxChamadas)
  /\ UNCHANGED <<posto, colaboradoresAtivos>>
  /\ UNCHANGED <<concVars, pagVars>>

CallGetCoberturaParaPosto ==
  \E a \in Ativos :
    /\ entrada' = posto
    /\ op' = "getCoberturaParaPosto"
    /\ colaboradoresAtivos' = a
    /\ ret' = getCoberturaParaPosto(a, posto)
    /\ referencia' = IF referencia = None
                     THEN [op |-> op', posto |-> posto, ativos |-> a, ret |-> ret']
                     ELSE referencia
    /\ chamadas' = Min(chamadas + 1, MaxChamadas)
    /\ UNCHANGED posto
    /\ UNCHANGED <<concVars, pagVars>>

Next ==
  \/ CallIsEscala12x36
  \/ CallGetEfetivoPlanejadoAjustado
  \/ CallGetCoberturaParaPosto

Spec == Init /\ [][Next]_vars

(* ---- the caller moves from one post record to another between calls ---- *)
EscalasPuro == {Undefined,
                Str(<<" ", "1", "2", "X", "3", "6">>),
                Str(<<"D", "i", "a">>)}

EfetivosPuro == {Null, Num(2), Num(MaxEfetivo)}

PostosPuro == [escala : EscalasPuro, efetivo_planejado : EfetivosPuro]

InitPuro ==
  /\ posto \in PostosPuro
  /\ colaboradoresAtivos = 0
  /\ op = "none"
  /\ ret = None
  /\ entrada = posto
  /\ referencia = None
  /\ chamadas = 0
  /\ ConcParado
  /\ PagParada

\* the caller picks up another post record; the records of the calls made are kept
NovoPosto ==
  /\ \E p \in PostosPuro :
       /\ p # posto
       /\ posto' = p
  /\ UNCHANGED <<colaboradoresAtivos, op, ret, entrada, referencia, chamadas>>
  /\ UNCHANGED <<concVars, pagVars>>

NextPuro ==
  \/ NovoPosto
  \/ CallIsEscala12x36
  \/ CallGetEfetivoPlanejadoAjustado
  \/ CallGetCoberturaParaPosto

SpecPuro == InitPuro /\ [][NextPuro]_vars

(* ---- several callers run the calculator, one statement at a time ---- *)
AtivosConc == {0, MIN_EFETIVO_ESCALA_12X36 - 1, MaxAtivos}

\* a caller enters getEfetivoPlanejadoAjustado(p)
EntraEfetivo(c, p) ==
  /\ frames[c].pc = "idle"
  /\ frames' = [frames EXCEPT ![c] = [FrameIdle EXCEPT !.pc = "e14",
                                                        !.fn = "getEfetivoPlanejadoAjustado",
                                                        !.posto = p]]
  /\ UNCHANGED <<calcVars, pagVars>>

\* a caller enters getCoberturaParaPosto(a, p), whose first statement calls getEfetivoPlanejadoAjustado
EntraCobertura(c, a, p) ==
  /\ frames[c].pc = "idle"
  /\ frames' = [frames EXCEPT ![c] = [FrameIdle EXCEPT !.pc = "e14",
                                                        !.fn = "getCoberturaParaPosto",
                                                        !.posto = p,
                                                        !.ativos = a]]
  /\ UNCHANGED <<calcVars, pagVars>>

\* const baseEfetivo = ...
PassoBase(fs, c) == [fs[c] EXCEPT !.baseEfetivo = baseEfetivo(fs[c].posto), !.pc = "e15"]

\* if (isEscala12x36(posto.escala))
PassoIs12(fs, c) ==
  LET r == isEscala12x36(fs[c].posto.escala) IN
  IF r.kind = "throw" THEN [fs[c] EXCEPT !.ret = r, !.pc = "done"]
  ELSE [fs[c] EXCEPT !.is12 = r.value, !.pc = "e16"]

\* the value a caller's return statement reads is the one another caller in flight wrote
\* (baseEfetivo kept in a variable of the module instead of the call)
PassoRetornoEfetivo_compartilhado(fs, c) ==
  LET outros == {d \in DOMAIN fs : d # c /\ fs[d].pc \in {"e15", "e16"}}
      base == IF outros = {} THEN fs[c].baseEfetivo
              ELSE fs[CHOOSE d \in outros : TRUE].baseEfetivo
      v == IF fs[c].is12 THEN Max(base, MIN_EFETIVO_ESCALA_12X36) ELSE base IN
  IF fs[c].fn = "getEfetivoPlanejadoAjustado"
  THEN [fs[c] EXCEPT !.ret = Return(v), !.pc = "done"]
  ELSE [fs[c] EXCEPT !.nec = v, !.pc = "c23"]

\* return Math.max(baseEfetivo, MIN_EFETIVO_ESCALA_12X36) or return baseEfetivo
PassoRetornoEfetivo(fs, c) ==
  LET v == IF fs[c].is12 THEN Max(fs[c].baseEfetivo, MIN_EFETIVO_ESCALA_12X36)
           ELSE fs[c].baseEfetivo IN
  IF fs[c].fn = "getEfetivoPlanejadoAjustado"
  THEN [fs[c] EXCEPT !.ret = Return(v), !.pc = "done"]
  ELSE [fs[c] EXCEPT !.nec = v, !.pc = "c23"]

\* const efetivoConsiderado = Math.min(colaboradoresAtivos, efetivoNecessario)
PassoConsiderado(fs, c) == [fs[c] EXCEPT !.cons = Min(fs[c].ativos, fs[c].nec), !.pc = "c25"]

\* return { efetivoNecessario, efetivoConsiderado, estaCoberto }
PassoRetornoCobertura(fs, c) ==
  [fs[c] EXCEPT !.ret = Return([efetivoNecessario |-> fs[c].nec,
                                efetivoConsiderado |-> fs[c].cons,
                                estaCoberto |-> fs[c].ativos >= fs[c].nec]),
                !.pc = "done"]

Passo(c) ==
  /\ frames[c].pc \in {"e14", "e15", "e16", "c23", "c25"}
  /\ frames' = [frames EXCEPT ![c] =
       CASE frames[c].pc = "e14" -> PassoBase(frames, c)
         [] frames[c].pc = "e15" -> PassoIs12(frames, c)
         [] frames[c].pc = "e16" -> PassoRetornoEfetivo(frames, c)
         [] frames[c].pc = "c23" -> PassoConsiderado(frames, c)
         [] frames[c].pc = "c25" -> PassoRetornoCobertura(frames, c)]
  /\ UNCHANGED <<calcVars, pagVars>>

\* the caller takes the result; its frame is gone
Retorna(c) ==
  /\ frames[c].pc = "done"
  /\ frames' = [frames EXCEPT ![c] = FrameIdle]
  /\ UNCHANGED <<calcVars, pagVars>>

InitConc ==
  /\ CalcParado
  /\ ConcParado
  /\ PagParada

NextConc ==
  \/ \E c \in Callers, p \in PostosPuro : EntraEfetivo(c, p)
  \/ \E c \in Callers, a \in AtivosConc, p \in PostosPuro : EntraCobertura(c, a, p)
  \/ \E c \in Callers : Passo(c)
  \/ \E c \in Callers : Retorna(c)

SpecConc == InitConc /\ [][NextConc]_vars

(* ---------------- ChecklistRespostas: handlers ---------------- *)
outrasRespostas == <<calcVars, concVars, pagina, checklistItens, outraSessao, execucaoChecklist,
                     checklistExecucoes, checklist,
                      painel, colaboradores, checklistCadastro>>

\* fetchExecucoes: the list is replaced by the rows of the backend, or an error is shown
RespostasFetchExecucoes ==
  /\ pagina = "ChecklistRespostas"
  /\ \E ok \in BOOLEAN :
       checklistRespostas' =
         IF ok THEN [checklistRespostas EXCEPT !.execucoes = supabase.checklist_execucoes]
         ELSE [checklistRespostas EXCEPT !.toast = "error"]
  /\ UNCHANGED <<outrasRespostas, supabase, pedido>>

\* the execution Select offers the executions of the loaded list
RespostasSelecionaExecucao ==
  /\ pagina = "ChecklistRespostas"
  /\ \E e \in ExecIds :
       /\ checklistRespostas.execucoes[e] # "ausente"
       /\ checklistRespostas' = [checklistRespostas EXCEPT !.formData.execucao_id = e]
  /\ UNCHANGED <<outrasRespostas, supabase, pedido>>

RespostasDigitaResposta ==
  /\ pagina = "ChecklistRespostas"
  /\ \E txt \in Textos :
       /\ txt # checklistRespostas.formData.resposta
       /\ checklistRespostas' = [checklistRespostas EXCEPT !.formData.resposta = txt]
  /\ UNCHANGED <<outrasRespostas, supabase, pedido>>

\* the datetime-local input of created_at
RespostasInformaData ==
  /\ pagina = "ChecklistRespostas"
  /\ \E d \in DatasDigitadas :
       /\ d # checklistRespostas.formData.created_at
       /\ checklistRespostas' = [checklistRespostas EXCEPT !.formData.created_at = d]
  /\ UNCHANGED <<outrasRespostas, supabase, pedido>>

RespostasHandleEdit ==
  /\ pagina = "ChecklistRespostas"
  /\ \E r \in RespostaRows :
       checklistRespostas' =
         [checklistRespostas EXCEPT
            !.editingId = r.id,
            !.formData = [execucao_id |-> IF r.execucao_id = NullId THEN "" ELSE r.execucao_id,
                          resposta |-> IF r.resposta = Null THEN <<>> ELSE r.resposta.s,
                          created_at |-> "d1"]]
  /\ UNCHANGED <<outrasRespostas, supabase, pedido>>

\* the Cancelar button, shown while editingId is set
RespostasResetForm ==
  /\ pagina = "ChecklistRespostas"
  /\ checklistRespostas.editingId # NullId
  /\ checklistRespostas' = [checklistRespostas EXCEPT !.formData = RespostasInitialForm,
                                                       !.editingId = NullId]
  /\ UNCHANGED <<outrasRespostas, supabase, pedido>>

\* if (!formData.execucao_id)
RespostasSemExecucao(fd) == fd.execucao_id = ""

\* execucoes.find(...)?.status === "concluido"
RespostasExecucaoConcluida(execs, fd) ==
  /\ fd.execucao_id \in DOMAIN execs
  /\ execs[fd.execucao_id] = "concluido"

\* handleSubmit up to its first await: the checks, setSaving(true), the payload, the request
RespostasHandleSubmit ==
  /\ pagina = "ChecklistRespostas"
  /\ ~checklistRespostas.saving
  /\ LET pg == checklistRespostas IN
     checklistRespostas' =
       IF RespostasSemExecucao(pg.formData) \/ RespostasExecucaoConcluida(pg.execucoes, pg.formData)
       THEN [pg EXCEPT !.toast = "warning"]
       ELSE IF pg.formData.created_at # "" /\ ~DataValida(pg.formData.created_at)
       THEN [pg EXCEPT !.saving = TRUE, !.hs = HsAbortado]
       ELSE [pg EXCEPT !.saving = TRUE,
                       !.hs = [pc |-> "escrita",
                               editingId |-> pg.editingId,
                               payload |-> [execucao_id |-> pg.formData.execucao_id,
                                            resposta |-> TrimOuNull(pg.formData.resposta),
                                            created_at |-> IF pg.formData.created_at # ""
                                                           THEN toISOString(pg.formData.created_at)
                                                           ELSE "undefined"]]]
  /\ UNCHANGED <<outrasRespostas, supabase, pedido>>

\* the backend performs the update or insert and answers with or without an error
RespostasBackend ==
  /\ pagina = "ChecklistRespostas"
  /\ checklistRespostas.hs.pc = "escrita"
  /\ \E ok \in BOOLEAN :
       LET hs == checklistRespostas.hs IN
       /\ pedido' = [tabela |-> "checklist_respostas",
                     tipo |-> IF hs.editingId # NullId THEN "update" ELSE "insert",
                     id |-> hs.editingId,
                     payload |-> hs.payload,
                     ok |-> ok,
                     statusExecucao |-> supabase.checklist_execucoes[hs.payload.execucao_id]]
       /\ checklistRespostas' = [checklistRespostas EXCEPT !.hs.pc = "resposta"]
  /\ UNCHANGED <<outrasRespostas, supabase>>

\* handleSubmit resumes after the await: success path, catch, finally
RespostasRetoma ==
  /\ pagina = "ChecklistRespostas"
  /\ checklistRespostas.hs.pc = "resposta"
  /\ checklistRespostas' =
       IF pedido.ok
       THEN [checklistRespostas EXCEPT !.toast = "success",
                                       !.formData = RespostasInitialForm,
                                       !.editingId = NullId,
                                       !.saving = FALSE,
                                       !.hs = HsIdle]
       ELSE [checklistRespostas EXCEPT !.toast = "error", !.saving = FALSE, !.hs = HsIdle]
  /\ pedido' = SemPedido
  /\ UNCHANGED <<outrasRespostas, supabase>>

\* another page or user changes the status of an execution in the backend
StatusAlterado ==
  /\ pagina = "ChecklistRespostas"
  /\ \E e \in ExecIds, st \in StatusExecucao :
       /\ supabase.checklist_execucoes[e] # st
       /\ supabase' = [supabase EXCEPT !.checklist_execucoes[e] = st]
  /\ UNCHANGED <<outrasRespostas, pedido, checklistRespostas>>

InitRespostas ==
  /\ CalcParado
  /\ ConcParado
  /\ pagina = "ChecklistRespostas"
  /\ supabase \in {[SupabaseInicial EXCEPT !.checklist_execucoes = f] : f \in [ExecIds -> StatusExecucao]}
  /\ pedido = SemPedido
  /\ checklistRespostas = RespostasInicial
  /\ checklistItens = ItensInicial
  /\ outraSessao = HsIdle
  /\ execucaoChecklist = AgendaInicial
  /\ checklistExecucoes = ExecucoesInicial
  /\ checklist = ChecklistInicial
  /\ painel = PainelInicial
  /\ colaboradores = ColaboradoresInicial
  /\ checklistCadastro = CadastroInicial

NextRespostas ==
  \/ RespostasFetchExecucoes
  \/ RespostasSelecionaExecucao
  \/ RespostasDigitaResposta
  \/ RespostasInformaData
  \/ RespostasHandleEdit
  \/ RespostasResetForm
  \/ RespostasHandleSubmit
  \/ RespostasBackend
  \/ RespostasRetoma
  \/ StatusAlterado

SpecRespostas == InitRespostas /\ [][NextRespostas]_vars

(* ---------------- ChecklistItens: handlers ---------------- *)
outrasItens == <<calcVars, concVars, pagina, checklistRespostas, execucaoChecklist,
                 checklistExecucoes, checklist,
                  painel, colaboradores, checklistCadastro>>

ORDEM_MIN == 1
ORDEM_MAX == 999999
MAX_TENTATIVAS == 50

\* Math.floor(Math.random() * (max - min + 1)) + min, over the explored part of the range
OrdensAleatorias == ORDEM_MIN..Min(ORDEM_MAX, MaxOrdem)

\* select("id", { count: "exact", head: true }).eq("ordem", k)
ContaOrdem(tab, k) == Cardinality({i \in DOMAIN tab : tab[i] = k})

ItensSelecionaChecklist ==
  /\ pagina = "ChecklistItens"
  /\ checklistItens.formData.checklist_id # "c1"
  /\ checklistItens' = [checklistItens EXCEPT !.formData.checklist_id = "c1"]
  /\ UNCHANGED <<outrasItens, supabase, pedido, outraSessao>>

ItensDigitaDescricao ==
  /\ pagina = "ChecklistItens"
  /\ \E txt \in Textos :
       /\ txt # checklistItens.formData.descricao
       /\ checklistItens' = [checklistItens EXCEPT !.formData.descricao = txt]
  /\ UNCHANGED <<outrasItens, supabase, pedido, outraSessao>>

\* Edit on a row of the table
ItensHandleEdit ==
  /\ pagina = "ChecklistItens"
  /\ \E i \in ItemIds :
       /\ supabase.checklist_itens[i] # 0
       /\ checklistItens' = [checklistItens EXCEPT
                               !.editingId = i,
                               !.formData = [checklist_id |-> "c1", descricao |-> <<"a">>]]
  /\ UNCHANGED <<outrasItens, supabase, pedido, outraSessao>>

\* the Cancelar button, shown while editingId is set
ItensResetForm ==
  /\ pagina = "ChecklistItens"
  /\ checklistItens.editingId # NullId
  /\ checklistItens' = [checklistItens EXCEPT !.formData = ItensInitialForm, !.editingId = NullId]
  /\ UNCHANGED <<outrasItens, supabase, pedido, outraSessao>>

\* the check without the trim: if (!formData.checklist_id || !formData.descricao)
ItensIncompleto_semTrim(fd) == fd.checklist_id = "" \/ fd.descricao = <<>>

\* if (!formData.checklist_id || !formData.descricao.trim())
ItensIncompleto(fd) == fd.checklist_id = "" \/ trim(fd.descricao) = <<>>

\* while (tentativa < 50) with a limit that lets one more query through
MaisUmaTentativa_inclusive(tentativa) == tentativa <= MAX_TENTATIVAS

\* while (tentativa < 50)
MaisUmaTentativa(tentativa) == tentativa < MAX_TENTATIVAS

\* handleSubmit up to its first await: the check, setSaving(true), the first count query
ItensHandleSubmit ==
  /\ pagina = "ChecklistItens"
  /\ ~checklistItens.saving
  /\ LET pg == checklistItens IN
     checklistItens' =
       IF ItensIncompleto(pg.formData)
       THEN [pg EXCEPT !.toast = "warning"]
       ELSE [pg EXCEPT !.saving = TRUE,
                       !.hs = [pc |-> "consulta",
                               tentativa |-> 1,
                               editingId |-> pg.editingId,
                               formData |-> pg.formData]]
  /\ UNCHANGED <<outrasItens, supabase, pedido, outraSessao>>

\* the backend answers the count query for the candidate k; gerarOrdemUnica goes on:
\* it throws, returns k (the payload is built and the write is sent), or tries again
ItensConsulta ==
  /\ pagina = "ChecklistItens"
  /\ checklistItens.hs.pc = "consulta"
  /\ \E k \in OrdensAleatorias, erro \in BOOLEAN :
       LET pg == checklistItens
           hs == pg.hs
           count == ContaOrdem(supabase.checklist_itens, k) IN
       checklistItens' =
         IF erro THEN [pg EXCEPT !.toast = "error", !.saving = FALSE, !.hs = HsIdle]
         ELSE IF count = 0
         THEN [pg EXCEPT !.hs = [pc |-> "escrita",
                                 tentativa |-> hs.tentativa,
                                 editingId |-> hs.editingId,
                                 payload |-> [checklist_id |-> hs.formData.checklist_id,
                                              ordem |-> k,
                                              descricao |-> trim(hs.formData.descricao)]]]
         ELSE IF MaisUmaTentativa(hs.tentativa)
         THEN [pg EXCEPT !.hs.tentativa = hs.tentativa + 1]
         ELSE [pg EXCEPT !.toast = "error", !.saving = FALSE, !.hs = HsIdle]
  /\ UNCHANGED <<outrasItens, supabase, pedido, outraSessao>>

\* the rows of the table after an update of row id or, with id = NullId, an insert
ItensAposEscrita(tab, id, ordem) ==
  IF id # NullId THEN [tab EXCEPT ![id] = IF tab[id] = 0 THEN 0 ELSE ordem]
  ELSE LET novo == CHOOSE i \in DOMAIN tab : tab[i] = 0 IN [tab EXCEPT ![novo] = ordem]

\* the table has room for the row (the table holds at most the rows of ItemIds)
ItensCabe(tab, id) == id # NullId \/ \E i \in DOMAIN tab : tab[i] = 0

\* the backend performs the update or insert and answers with or without an error
ItensBackend ==
  /\ pagina = "ChecklistItens"
  /\ checklistItens.hs.pc = "escrita"
  /\ \E ok \in BOOLEAN :
       LET hs == checklistItens.hs IN
       /\ ok => ItensCabe(supabase.checklist_itens, hs.editingId)
       /\ pedido' = [tabela |-> "checklist_itens",
                     tipo |-> IF hs.editingId # NullId THEN "update" ELSE "insert",
                     id |-> hs.editingId,
                     payload |-> hs.payload,
                     ok |-> ok]
       /\ supabase' = IF ok
                      THEN [supabase EXCEPT !.checklist_itens =
                              ItensAposEscrita(supabase.checklist_itens, hs.editingId, hs.payload.ordem)]
                      ELSE supabase
       /\ checklistItens' = [checklistItens EXCEPT !.hs.pc = "resposta"]
  /\ UNCHANGED <<outrasItens, outraSessao>>

\* handleSubmit resumes after the await: success path, catch, finally
ItensRetoma ==
  /\ pagina = "ChecklistItens"
  /\ checklistItens.hs.pc = "resposta"
  /\ checklistItens' =
       IF pedido.ok
       THEN [checklistItens EXCEPT !.toast = "success",
                                   !.formData = ItensInitialForm,
                                   !.editingId = NullId,
                                   !.saving = FALSE,
                                   !.hs = HsIdle]
       ELSE [checklistItens EXCEPT !.toast = "error", !.saving = FALSE, !.hs = HsIdle]
  /\ pedido' = SemPedido
  /\ UNCHANGED <<outrasItens, supabase, outraSessao>>

\* in the other browser a submit of a new item has its count query answered with 0 for k
OutraSessaoConsulta ==
  /\ pagina = "ChecklistItens"
  /\ outraSessao.pc = "idle"
  /\ \E k \in OrdensAleatorias :
       /\ ContaOrdem(supabase.checklist_itens, k) = 0
       /\ outraSessao' = [pc |-> "escrita", ordem |-> k]
  /\ UNCHANGED <<outrasItens, supabase, pedido, checklistItens>>

\* the backend performs the insert of the other browser
OutraSessaoBackend ==
  /\ pagina = "ChecklistItens"
  /\ outraSessao.pc = "escrita"
  /\ \E ok \in BOOLEAN :
       /\ ok => ItensCabe(supabase.checklist_itens, NullId)
       /\ supabase' = IF ok
                      THEN [supabase EXCEPT !.checklist_itens =
                              ItensAposEscrita(supabase.checklist_itens, NullId, outraSessao.ordem)]
                      ELSE supabase
  /\ outraSessao' = HsIdle
  /\ UNCHANGED <<outrasItens, pedido, checklistItens>>

InitItens ==
  /\ CalcParado
  /\ ConcParado
  /\ pagina = "ChecklistItens"
  /\ supabase = SupabaseInicial
  /\ pedido = SemPedido
  /\ checklistRespostas = RespostasInicial
  /\ checklistItens = ItensInicial
  /\ outraSessao = HsIdle
  /\ execucaoChecklist = AgendaInicial
  /\ checklistExecucoes = ExecucoesInicial
  /\ checklist = ChecklistInicial
  /\ painel = PainelInicial
  /\ colaboradores = ColaboradoresInicial
  /\ checklistCadastro = CadastroInicial

NextItens ==
  \/ ItensSelecionaChecklist
  \/ ItensDigitaDescricao
  \/ ItensHandleEdit
  \/ ItensResetForm
  \/ ItensHandleSubmit
  \/ ItensConsulta
  \/ ItensBackend
  \/ ItensRetoma
  \/ OutraSessaoConsulta
  \/ OutraSessaoBackend

SpecItens == InitItens /\ [][NextItens]_vars

(* ---------------- ChecklistExecucoes (scheduling): handlers ---------------- *)
outrasAgenda == <<calcVars, concVars, pagina, checklistRespostas, checklistItens, outraSessao,
                  checklistExecucoes, checklist,
                   painel, colaboradores, checklistCadastro>>

AgendaSelecionaChecklist ==
  /\ pagina = "ExecucaoChecklist"
  /\ execucaoChecklist.formData.checklist_id # "c1"
  /\ execucaoChecklist' = [execucaoChecklist EXCEPT !.formData.checklist_id = "c1"]
  /\ UNCHANGED <<outrasAgenda, supabase, pedido>>

AgendaInformaData ==
  /\ pagina = "ExecucaoChecklist"
  /\ \E d \in {"", "d1"} :
       /\ d # execucaoChecklist.formData.data_prevista
       /\ execucaoChecklist' = [execucaoChecklist EXCEPT !.formData.data_prevista = d]
  /\ UNCHANGED <<outrasAgenda, supabase, pedido>>

\* the options of the supervisor Select: "Sem supervisor" (value "none") and the supervisors
AgendaSelecionaSupervisor ==
  /\ pagina = "ExecucaoChecklist"
  /\ \E v \in {"none"} \cup SupervisorIds :
       /\ v # execucaoChecklist.formData.supervisor_id
       /\ execucaoChecklist' = [execucaoChecklist EXCEPT !.formData.supervisor_id = v]
  /\ UNCHANGED <<outrasAgenda, supabase, pedido>>

\* execucao.supervisor_id ?? "none"
AgendaSupervisorDaLinha(v) == IF v = NullId THEN "none" ELSE v

AgendaHandleEdit ==
  /\ pagina = "ExecucaoChecklist"
  /\ \E i \in AgendaIds :
       /\ supabase.execucao_checklist[i] # "ausente"
       /\ execucaoChecklist' = [execucaoChecklist EXCEPT
            !.editingId = i,
            !.formData = [checklist_id |-> "c1",
                          data_prevista |-> "d1",
                          supervisor_id |-> AgendaSupervisorDaLinha(supabase.execucao_checklist[i])]]
  /\ UNCHANGED <<outrasAgenda, supabase, pedido>>

\* the form set by resetForm
AgendaFormLimpo == [checklist_id |-> "", data_prevista |-> "", supervisor_id |-> ""]

\* the buttons "Nova execução" (always shown) and "Cancelar"
AgendaResetForm ==
  /\ pagina = "ExecucaoChecklist"
  /\ execucaoChecklist' = [execucaoChecklist EXCEPT !.formData = AgendaFormLimpo, !.editingId = NullId]
  /\ UNCHANGED <<outrasAgenda, supabase, pedido>>

\* if (!formData.checklist_id || !formData.data_prevista)
AgendaIncompleto(fd) == fd.checklist_id = "" \/ fd.data_prevista = ""

\* formData.supervisor_id === "none" ? null : formData.supervisor_id
AgendaSupervisorDoPayload(v) == IF v = "none" THEN NullId ELSE v

\* handleSubmit up to its first await
AgendaHandleSubmit ==
  /\ pagina = "ExecucaoChecklist"
  /\ ~execucaoChecklist.saving
  /\ LET pg == execucaoChecklist IN
     execucaoChecklist' =
       IF AgendaIncompleto(pg.formData)
       THEN [pg EXCEPT !.toast = "error"]
       ELSE [pg EXCEPT !.saving = TRUE,
                       !.hs = [pc |-> "escrita",
                               editingId |-> pg.editingId,
                               payload |-> [checklist_id |-> pg.formData.checklist_id,
                                            data_prevista |-> pg.formData.data_prevista,
                                            supervisor_id |-> AgendaSupervisorDoPayload(pg.formData.supervisor_id)]]]
  /\ UNCHANGED <<outrasAgenda, supabase, pedido>>

\* the rows of the table after an update of row id or, with id = NullId, an insert
AgendaAposEscrita(tab, id, sup) ==
  IF id # NullId THEN [tab EXCEPT ![id] = IF tab[id] = "ausente" THEN "ausente" ELSE sup]
  ELSE LET novo == CHOOSE i \in DOMAIN tab : tab[i] = "ausente" IN [tab EXCEPT ![novo] = sup]

\* the table has room for the row (the table holds at most the rows of AgendaIds)
AgendaCabe(tab, id) == id # NullId \/ \E i \in DOMAIN tab : tab[i] = "ausente"

\* the backend performs the update or insert and answers with or without an error
AgendaBackend ==
  /\ pagina = "ExecucaoChecklist"
  /\ execucaoChecklist.hs.pc = "escrita"
  /\ \E ok \in BOOLEAN :
       LET hs == execucaoChecklist.hs IN
       /\ ok => AgendaCabe(supabase.execucao_checklist, hs.editingId)
       /\ pedido' = [tabela |-> "execucao_checklist",
                     tipo |-> IF hs.editingId # NullId THEN "update" ELSE "insert",
                     id |-> hs.editingId,
                     payload |-> hs.payload,
                     ok |-> ok]
       /\ supabase' = IF ok
                      THEN [supabase EXCEPT !.execucao_checklist =
                              AgendaAposEscrita(supabase.execucao_checklist, hs.editingId,
                                                hs.payload.supervisor_id)]
                      ELSE supabase
       /\ execucaoChecklist' = [execucaoChecklist EXCEPT !.hs = [pc |-> "resposta", tipo |-> pedido'.tipo]]
  /\ UNCHANGED outrasAgenda

\* handleSubmit resumes after the write: throw into catch and finally, or go on to
\* createExecutionItems (insert) or loadExecucoes (update)
AgendaRetoma ==
  /\ pagina = "ExecucaoChecklist"
  /\ execucaoChecklist.hs.pc = "resposta"
  /\ execucaoChecklist' =
       IF ~pedido.ok
       THEN [execucaoChecklist EXCEPT !.toast = "error", !.saving = FALSE, !.hs = HsIdle]
       ELSE IF pedido.tipo = "update"
       THEN [execucaoChecklist EXCEPT !.toast = "success", !.hs = [pc |-> "recarga"]]
       ELSE [execucaoChecklist EXCEPT !.hs = [pc |-> "itens"]]
  /\ pedido' = SemPedido
  /\ UNCHANGED <<outrasAgenda, supabase>>

\* createExecutionItems returns or throws (loadChecklistItems failed)
AgendaCreateExecutionItems ==
  /\ pagina = "ExecucaoChecklist"
  /\ execucaoChecklist.hs.pc = "itens"
  /\ \E erro \in BOOLEAN :
       execucaoChecklist' =
         IF erro
         THEN [execucaoChecklist EXCEPT !.toast = "error", !.saving = FALSE, !.hs = HsIdle]
         ELSE [execucaoChecklist EXCEPT !.toast = "success", !.hs = [pc |-> "recarga"]]
  /\ UNCHANGED <<outrasAgenda, supabase, pedido>>

\* await loadExecucoes() returns or throws; then resetForm() or catch, and finally
AgendaLoadExecucoes ==
  /\ pagina = "ExecucaoChecklist"
  /\ execucaoChecklist.hs.pc = "recarga"
  /\ \E erro \in BOOLEAN :
       execucaoChecklist' =
         IF erro
         THEN [execucaoChecklist EXCEPT !.toast = "error", !.saving = FALSE, !.hs = HsIdle]
         ELSE [execucaoChecklist EXCEPT !.formData = AgendaFormLimpo,
                                        !.editingId = NullId,
                                        !.saving = FALSE,
                                        !.hs = HsIdle]
  /\ UNCHANGED <<outrasAgenda, supabase, pedido>>

InitAgenda ==
  /\ CalcParado
  /\ ConcParado
  /\ pagina = "ExecucaoChecklist"
  /\ supabase = SupabaseInicial
  /\ pedido = SemPedido
  /\ checklistRespostas = RespostasInicial
  /\ checklistItens = ItensInicial
  /\ outraSessao = HsIdle
  /\ execucaoChecklist = AgendaInicial
  /\ checklistExecucoes = ExecucoesInicial
  /\ checklist = ChecklistInicial
  /\ painel = PainelInicial
  /\ colaboradores = ColaboradoresInicial
  /\ checklistCadastro = CadastroInicial

NextAgenda ==
  \/ AgendaSelecionaChecklist
  \/ AgendaInformaData
  \/ AgendaSelecionaSupervisor
  \/ AgendaHandleEdit
  \/ AgendaResetForm
  \/ AgendaHandleSubmit
  \/ AgendaBackend
  \/ AgendaRetoma
  \/ AgendaCreateExecutionItems
  \/ AgendaLoadExecucoes

SpecAgenda == InitAgenda /\ [][NextAgenda]_vars

(* ---------------- ChecklistExecucoes (recording): form handlers ---------------- *)
outrasExecucoes == <<calcVars, concVars, pagina, checklistRespostas, checklistItens, outraSessao,
                     execucaoChecklist, checklist,
                      painel, colaboradores, checklistCadastro>>

ExecucoesSelecionaChecklist ==
  /\ pagina = "ChecklistExecucoes"
  /\ checklistExecucoes.formData.checklist_id # "1"
  /\ checklistExecucoes' = [checklistExecucoes EXCEPT !.formData.checklist_id = "1"]
  /\ UNCHANGED <<outrasExecucoes, supabase, pedido>>

ExecucoesSelecionaColaborador ==
  /\ pagina = "ChecklistExecucoes"
  /\ checklistExecucoes.formData.colaborador_id # "col1"
  /\ checklistExecucoes' = [checklistExecucoes EXCEPT !.formData.colaborador_id = "col1"]
  /\ UNCHANGED <<outrasExecucoes, supabase, pedido>>

\* the datetime-local input of data_execucao
ExecucoesInformaData ==
  /\ pagina = "ChecklistExecucoes"
  /\ \E d \in DatasDigitadas :
       /\ d # checklistExecucoes.formData.data_execucao
       /\ checklistExecucoes' = [checklistExecucoes EXCEPT !.formData.data_execucao = d]
  /\ UNCHANGED <<outrasExecucoes, supabase, pedido>>

ExecucoesSelecionaStatus ==
  /\ pagina = "ChecklistExecucoes"
  /\ \E st \in StatusExecucao :
       /\ st # checklistExecucoes.formData.status
       /\ checklistExecucoes' = [checklistExecucoes EXCEPT !.formData.status = st]
  /\ UNCHANGED <<outrasExecucoes, supabase, pedido>>

ExecucoesHandleEdit ==
  /\ pagina = "ChecklistExecucoes"
  /\ \E e \in ExecIds :
       checklistExecucoes' = [checklistExecucoes EXCEPT
         !.editingId = e,
         !.formData = [checklist_id |-> "1",
                       colaborador_id |-> "col1",
                       data_execucao |-> "d1",
                       status |-> supabase.checklist_execucoes[e]]]
  /\ UNCHANGED <<outrasExecucoes, supabase, pedido>>

\* the Cancelar button, shown while editingId is set
ExecucoesResetForm ==
  /\ pagina = "ChecklistExecucoes"
  /\ checklistExecucoes.editingId # NullId
  /\ checklistExecucoes' = [checklistExecucoes EXCEPT !.formData = ExecucoesInitialForm,
                                                       !.editingId = NullId]
  /\ UNCHANGED <<outrasExecucoes, supabase, pedido>>

\* if (!formData.checklist_id || !formData.colaborador_id || !formData.data_execucao)
ExecucoesIncompleto(fd) ==
  fd.checklist_id = "" \/ fd.colaborador_id = "" \/ fd.data_execucao = ""

\* Number(formData.checklist_id) for the ids of the select
NumberDe(str) == IF str = "1" THEN 1 ELSE 0

\* handleSubmit up to its first await
ExecucoesHandleSubmit ==
  /\ pagina = "ChecklistExecucoes"
  /\ ~checklistExecucoes.saving
  /\ LET pg == checklistExecucoes IN
     checklistExecucoes' =
       IF ExecucoesIncompleto(pg.formData)
       THEN [pg EXCEPT !.toast = "warning"]
       ELSE IF ~DataValida(pg.formData.data_execucao)
       THEN [pg EXCEPT !.saving = TRUE, !.hs = HsAbortado]
       ELSE [pg EXCEPT !.saving = TRUE,
                       !.hs = [pc |-> "escrita",
                               editingId |-> pg.editingId,
                               payload |-> [checklist_id |-> NumberDe(pg.formData.checklist_id),
                                            colaborador_id |-> pg.formData.colaborador_id,
                                            data_execucao |-> toISOString(pg.formData.data_execucao),
                                            status |-> pg.formData.status]]]
  /\ UNCHANGED <<outrasExecucoes, supabase, pedido>>

\* the backend performs the update or insert and answers with or without an error
ExecucoesBackend ==
  /\ pagina = "ChecklistExecucoes"
  /\ checklistExecucoes.hs.pc = "escrita"
  /\ \E ok \in BOOLEAN :
       LET hs == checklistExecucoes.hs IN
       /\ (ok /\ hs.editingId = NullId) => supabase.checklist_execucoes_novas < MaxNovas
       /\ pedido' = [tabela |-> "checklist_execucoes",
                     tipo |-> IF hs.editingId # NullId THEN "update" ELSE "insert",
                     id |-> hs.editingId,
                     payload |-> hs.payload,
                     ok |-> ok]
       /\ supabase' =
            IF ~ok THEN supabase
            ELSE IF hs.editingId # NullId
            THEN [supabase EXCEPT !.checklist_execucoes[hs.editingId] = hs.payload.status]
            ELSE [supabase EXCEPT !.checklist_execucoes_novas = @ + 1]
       /\ checklistExecucoes' = [checklistExecucoes EXCEPT !.hs = [pc |-> "resposta"]]
  /\ UNCHANGED outrasExecucoes

\* handleSubmit resumes after the await: success path, catch, finally
ExecucoesRetoma ==
  /\ pagina = "ChecklistExecucoes"
  /\ checklistExecucoes.hs.pc = "resposta"
  /\ checklistExecucoes' =
       IF pedido.ok
       THEN [checklistExecucoes EXCEPT !.toast = "success",
                                       !.formData = ExecucoesInitialForm,
                                       !.editingId = NullId,
                                       !.saving = FALSE,
                                       !.hs = HsIdle]
       ELSE [checklistExecucoes EXCEPT !.toast = "error", !.saving = FALSE, !.hs = HsIdle]
  /\ pedido' = SemPedido
  /\ UNCHANGED <<outrasExecucoes, supabase>>

InitExecucoes ==
  /\ CalcParado
  /\ ConcParado
  /\ pagina = "ChecklistExecucoes"
  /\ supabase \in {[SupabaseInicial EXCEPT !.checklist_execucoes = f] : f \in [ExecIds -> StatusExecucao]}
  /\ pedido = SemPedido
  /\ checklistRespostas = RespostasInicial
  /\ checklistItens = ItensInicial
  /\ outraSessao = HsIdle
  /\ execucaoChecklist = AgendaInicial
  /\ checklistExecucoes = ExecucoesInicial
  /\ checklist = ChecklistInicial
  /\ painel = PainelInicial
  /\ colaboradores = ColaboradoresInicial
  /\ checklistCadastro = CadastroInicial

NextExecucoes ==
  \/ ExecucoesSelecionaChecklist
  \/ ExecucoesSelecionaColaborador
  \/ ExecucoesInformaData
  \/ ExecucoesSelecionaStatus
  \/ ExecucoesHandleEdit
  \/ ExecucoesResetForm
  \/ ExecucoesHandleSubmit
  \/ ExecucoesBackend
  \/ ExecucoesRetoma

SpecExecucoes == InitExecucoes /\ [][NextExecucoes]_vars

(* ---------------- Checklist: handlers ---------------- *)
outrasChecklist == <<calcVars, concVars, pagina, checklistRespostas, checklistItens, outraSessao,
                     execucaoChecklist, checklistExecucoes,
                      painel, colaboradores, checklistCadastro>>

ChecklistDigitaNome ==
  /\ pagina = "Checklist"
  /\ \E txt \in Textos :
       /\ txt # checklist.formData.nome
       /\ checklist' = [checklist EXCEPT !.formData.nome = txt]
  /\ UNCHANGED <<outrasChecklist, supabase, pedido>>

ChecklistHandleEdit ==
  /\ pagina = "Checklist"
  /\ \E k \in ChecklistIds :
       /\ supabase.checklists[k].existe
       /\ checklist' = [checklist EXCEPT !.editingId = k,
                                          !.formData = [nome |-> supabase.checklists[k].nome]]
  /\ UNCHANGED <<outrasChecklist, supabase, pedido>>

\* the Cancelar button, shown while editingId is set
ChecklistResetForm ==
  /\ pagina = "Checklist"
  /\ checklist.editingId # NullId
  /\ checklist' = [checklist EXCEPT !.formData = ChecklistInitialForm, !.editingId = NullId]
  /\ UNCHANGED <<outrasChecklist, supabase, pedido>>

\* if (!formData.nome.trim())
ChecklistSemNome(fd) == trim(fd.nome) = <<>>

\* handleSubmit up to its first await
ChecklistHandleSubmit ==
  /\ pagina = "Checklist"
  /\ ~checklist.saving
  /\ checklist' =
       IF ChecklistSemNome(checklist.formData)
       THEN [checklist EXCEPT !.toast = "warning"]
       ELSE [checklist EXCEPT !.saving = TRUE,
                              !.hs = [pc |-> "escrita",
                                      editingId |-> checklist.editingId,
                                      payload |-> [nome |-> trim(checklist.formData.nome)]]]
  /\ UNCHANGED <<outrasChecklist, supabase, pedido>>

\* the rows of the table after an update of row id or, with id = NullId, an insert
ChecklistsAposEscrita(tab, id, nome) ==
  IF id # NullId THEN [tab EXCEPT ![id].nome = IF tab[id].existe THEN nome ELSE @]
  ELSE LET novo == CHOOSE k \in DOMAIN tab : ~tab[k].existe
       IN [tab EXCEPT ![novo] = [existe |-> TRUE, nome |-> nome]]

\* the table has room for the row (the table holds at most the rows of ChecklistIds)
ChecklistsCabe(tab, id) == id # NullId \/ \E k \in DOMAIN tab : ~tab[k].existe

\* the backend performs the update or insert and answers with or without an error
ChecklistBackend ==
  /\ pagina = "Checklist"
  /\ checklist.hs.pc = "escrita"
  /\ \E ok \in BOOLEAN :
       LET hs == checklist.hs IN
       /\ ok => ChecklistsCabe(supabase.checklists, hs.editingId)
       /\ pedido' = [tabela |-> "checklists",
                     tipo |-> IF hs.editingId # NullId THEN "update" ELSE "insert",
                     id |-> hs.editingId,
                     payload |-> hs.payload,
                     ok |-> ok]
       /\ supabase' = IF ok
                      THEN [supabase EXCEPT !.checklists =
                              ChecklistsAposEscrita(supabase.checklists, hs.editingId, hs.payload.nome)]
                      ELSE supabase
       /\ checklist' = [checklist EXCEPT !.hs = [pc |-> "resposta"]]
  /\ UNCHANGED outrasChecklist

\* handleSubmit resumes after the await: success path, catch, finally
ChecklistRetoma ==
  /\ pagina = "Checklist"
  /\ checklist.hs.pc = "resposta"
  /\ checklist' =
       IF pedido.ok
       THEN [checklist EXCEPT !.toast = "success",
                              !.formData = ChecklistInitialForm,
                              !.editingId = NullId,
                              !.saving = FALSE,
                              !.hs = HsIdle]
       ELSE [checklist EXCEPT !.toast = "error", !.saving = FALSE, !.hs = HsIdle]
  /\ pedido' = SemPedido
  /\ UNCHANGED <<outrasChecklist, supabase>>

InitChecklist ==
  /\ CalcParado
  /\ ConcParado
  /\ pagina = "Checklist"
  /\ supabase = SupabaseInicial
  /\ pedido = SemPedido
  /\ checklistRespostas = RespostasInicial
  /\ checklistItens = ItensInicial
  /\ outraSessao = HsIdle
  /\ execucaoChecklist = AgendaInicial
  /\ checklistExecucoes = ExecucoesInicial
  /\ checklist = ChecklistInicial
  /\ painel = PainelInicial
  /\ colaboradores = ColaboradoresInicial
  /\ checklistCadastro = CadastroInicial

NextChecklist ==
  \/ ChecklistDigitaNome
  \/ ChecklistHandleEdit
  \/ ChecklistResetForm
  \/ ChecklistHandleSubmit
  \/ ChecklistBackend
  \/ ChecklistRetoma

SpecChecklist == InitChecklist /\ [][NextChecklist]_vars

(* ---------------- ChecklistExecucoes (recording): the concluded counter ---------------- *)
outrasPainel == <<calcVars, concVars, pagina, supabase, pedido, checklistRespostas, checklistItens,
                  outraSessao, execucaoChecklist, checklistExecucoes, checklist, colaboradores, checklistCadastro>>

\* execucao.data_execucao as a condition: a timestamp, not null
DataInformada(d) == d # Null

\* the keys of monthOptions, as months counted from year 0
MesesDasExecucoes(execucoes, fuso) ==
  {MesLocal(execucoes[i].data_execucao, fuso) :
     i \in {j \in 1..Len(execucoes) : DataInformada(execucoes[j].data_execucao)}}

\* Array.from(keys).sort().reverse()
monthOptions(execucoes, fuso) == {FormatoAnoMes(m) : m \in MesesDasExecucoes(execucoes, fuso)}

\* monthOptions[0]
PrimeiraOpcao(execucoes, fuso) ==
  LET ms == MesesDasExecucoes(execucoes, fuso)
  IN FormatoAnoMes(CHOOSE m \in ms : \A o \in ms : o <= m)

\* the effect that runs when monthOptions or selectedMonth change
PainelEfeito(p) ==
  IF /\ monthOptions(p.execucoes, p.fuso) # {}
     /\ p.selectedMonth \notin monthOptions(p.execucoes, p.fuso)
  THEN [p EXCEPT !.selectedMonth = PrimeiraOpcao(p.execucoes, p.fuso)]
  ELSE p

\* the filter without the test of the status
RECURSIVE ContaConcluidas_semStatus(_, _, _)
ContaConcluidas_semStatus(execucoes, selectedMonth, fuso) ==
  IF execucoes = <<>> THEN 0
  ELSE LET execucao == Head(execucoes)
       IN (IF /\ DataInformada(execucao.data_execucao)
              /\ format(execucao.data_execucao, fuso) = selectedMonth
           THEN 1 ELSE 0)
          + ContaConcluidas_semStatus(Tail(execucoes), selectedMonth, fuso)

\* execucoes.filter(...).length
RECURSIVE ContaConcluidas(_, _, _)
ContaConcluidas(execucoes, selectedMonth, fuso) ==
  IF execucoes = <<>> THEN 0
  ELSE LET execucao == Head(execucoes)
       IN (IF /\ execucao.status = "concluido"
              /\ DataInformada(execucao.data_execucao)
              /\ format(execucao.data_execucao, fuso) = selectedMonth
           THEN 1 ELSE 0)
          + ContaConcluidas(Tail(execucoes), selectedMonth, fuso)

concludedCountForSelectedMonth(execucoes, selectedMonth, fuso) ==
  IF selectedMonth = MesVazio THEN 0
  ELSE ContaConcluidas(execucoes, selectedMonth, fuso)

\* fetchExecucoes: the list is loaded, or the request fails and the list is kept
PainelFetchExecucoes ==
  /\ pagina = "ChecklistExecucoesPainel"
  /\ \E lista \in ListasExecucoes :
       /\ lista # painel.execucoes
       /\ painel' = PainelEfeito([painel EXCEPT !.execucoes = lista])
  /\ UNCHANGED outrasPainel

\* the month Select, enabled while monthOptions is not empty
PainelSelecionaMes ==
  /\ pagina = "ChecklistExecucoesPainel"
  /\ \E mes \in monthOptions(painel.execucoes, painel.fuso) :
       /\ mes # painel.selectedMonth
       /\ painel' = PainelEfeito([painel EXCEPT !.selectedMonth = mes])
  /\ UNCHANGED outrasPainel

\* useState(format(new Date(), "yyyy-MM")) in a browser of some timezone
InitPainel ==
  /\ CalcParado
  /\ ConcParado
  /\ pagina = "ChecklistExecucoesPainel"
  /\ supabase = SupabaseInicial
  /\ pedido = SemPedido
  /\ checklistRespostas = RespostasInicial
  /\ checklistItens = ItensInicial
  /\ outraSessao = HsIdle
  /\ execucaoChecklist = AgendaInicial
  /\ checklistExecucoes = ExecucoesInicial
  /\ checklist = ChecklistInicial
  /\ \E agora \in Datas, fuso \in Fusos :
       painel = [execucoes |-> <<>>, selectedMonth |-> format(agora, fuso), fuso |-> fuso]
  /\ colaboradores = ColaboradoresInicial
  /\ checklistCadastro = CadastroInicial

NextPainel ==
  \/ PainelFetchExecucoes
  \/ PainelSelecionaMes

SpecPainel == InitPainel /\ [][NextPainel]_vars

(* ---------------- Colaboradores: handlers ---------------- *)
outrasColaboradores == <<calcVars, concVars, pagina, supabase, pedido, checklistRespostas, checklistItens,
                         outraSessao, execucaoChecklist, checklistExecucoes, checklist, painel, checklistCadastro>>

\* the unidades query loads, or loads again, the active units
ColaboradoresUnidadesQuery ==
  /\ pagina = "Colaboradores"
  /\ \E n \in 0..MaxUnidades :
       /\ colaboradores.unidades # Arr(n)
       /\ colaboradores' = [colaboradores EXCEPT !.unidades = Arr(n)]
  /\ UNCHANGED outrasColaboradores

\* the colaboradores query loads, or loads again, its rows
ColaboradoresQuery ==
  /\ pagina = "Colaboradores"
  /\ \E n \in 0..MaxColaboradores :
       /\ colaboradores.lista # Arr(n)
       /\ colaboradores' = [colaboradores EXCEPT !.lista = Arr(n)]
  /\ UNCHANGED outrasColaboradores

\* Edit on a row of the table
ColaboradoresHandleEdit ==
  /\ pagina = "Colaboradores"
  /\ colaboradores.lista # Undefined
  /\ \E i \in 1..colaboradores.lista.length :
       colaboradores' = [colaboradores EXCEPT !.editingColaborador = Colaborador(i), !.showForm = TRUE]
  /\ UNCHANGED outrasColaboradores

\* onClose and onSuccess of ColaboradorForm
ColaboradoresFormOnClose ==
  /\ pagina = "Colaboradores"
  /\ colaboradores.showForm
  /\ colaboradores' = [colaboradores EXCEPT !.showForm = FALSE, !.editingColaborador = Null]
  /\ UNCHANGED outrasColaboradores

\* onClose of RequisitosMissingDialog
ColaboradoresRequisitosOnClose ==
  /\ pagina = "Colaboradores"
  /\ colaboradores.showRequisitosMissing
  /\ colaboradores' = [colaboradores EXCEPT !.showRequisitosMissing = FALSE]
  /\ UNCHANGED outrasColaboradores

\* the test without the length: if (!unidades) missing.push("Unidades")
missing_semLength(unidades) ==
  IF unidades = Undefined THEN <<"Unidades">> ELSE <<>>

\* const missing = []; if (!unidades || unidades.length === 0) missing.push("Unidades")
missing(unidades) ==
  IF unidades = Undefined \/ unidades.length = 0 THEN <<"Unidades">> ELSE <<>>

handleNewColaborador ==
  /\ pagina = "Colaboradores"
  /\ colaboradores' =
       IF Len(missing(colaboradores.unidades)) > 0
       THEN [colaboradores EXCEPT !.missingEntities = missing(colaboradores.unidades),
                                  !.showRequisitosMissing = TRUE]
       ELSE [colaboradores EXCEPT !.showForm = TRUE]
  /\ UNCHANGED outrasColaboradores

InitColaboradores ==
  /\ CalcParado
  /\ ConcParado
  /\ pagina = "Colaboradores"
  /\ supabase = SupabaseInicial
  /\ pedido = SemPedido
  /\ checklistRespostas = RespostasInicial
  /\ checklistItens = ItensInicial
  /\ outraSessao = HsIdle
  /\ execucaoChecklist = AgendaInicial
  /\ checklistExecucoes = ExecucoesInicial
  /\ checklist = ChecklistInicial
  /\ painel = PainelInicial
  /\ colaboradores = ColaboradoresInicial
  /\ checklistCadastro = CadastroInicial

NextColaboradores ==
  \/ ColaboradoresUnidadesQuery
  \/ ColaboradoresQuery
  \/ ColaboradoresHandleEdit
  \/ ColaboradoresFormOnClose
  \/ ColaboradoresRequisitosOnClose
  \/ handleNewColaborador

SpecColaboradores == InitColaboradores /\ [][NextColaboradores]_vars

(* ---------------- Checklist (table checklist): handlers ---------------- *)
outrasCadastro == <<calcVars, concVars, pagina, checklistRespostas, checklistItens, outraSessao,
                    execucaoChecklist, checklistExecucoes, checklist, painel, colaboradores>>

CadastroDigitaNome ==
  /\ pagina = "ChecklistCadastro"
  /\ \E txt \in Textos :
       /\ txt # checklistCadastro.formData.nome
       /\ checklistCadastro' = [checklistCadastro EXCEPT !.formData.nome = txt]
  /\ UNCHANGED <<outrasCadastro, supabase, pedido>>

\* the options of the contract Select: "none" and the contracts
CadastroSelecionaContrato ==
  /\ pagina = "ChecklistCadastro"
  /\ \E v \in {"none", "ct1"} :
       /\ v # checklistCadastro.formData.contrato_id
       /\ checklistCadastro' = [checklistCadastro EXCEPT !.formData.contrato_id = v]
  /\ UNCHANGED <<outrasCadastro, supabase, pedido>>

\* entry.contrato_id ?? "none"
CadastroContratoDaLinha(v) == IF v = NullId THEN "none" ELSE v

CadastroHandleEdit ==
  /\ pagina = "ChecklistCadastro"
  /\ \E b \in CadastroIds :
       /\ supabase.checklist[b].existe
       /\ checklistCadastro' = [checklistCadastro EXCEPT
            !.editingId = b,
            !.formData = [nome |-> supabase.checklist[b].nome,
                          contrato_id |-> CadastroContratoDaLinha(supabase.checklist[b].contrato_id)]]
  /\ UNCHANGED <<outrasCadastro, supabase, pedido>>

\* the form set by resetForm
CadastroFormLimpo == [nome |-> <<>>, contrato_id |-> "none"]

\* the buttons "Novo checklist" (always shown) and "Cancelar"
CadastroResetForm ==
  /\ pagina = "ChecklistCadastro"
  /\ checklistCadastro' = [checklistCadastro EXCEPT !.formData = CadastroFormLimpo, !.editingId = NullId]
  /\ UNCHANGED <<outrasCadastro, supabase, pedido>>

\* if (!formData.nome)
CadastroSemNome(fd) == fd.nome = <<>>

\* formData.contrato_id === "none" ? null : formData.contrato_id
CadastroContratoDoPayload(v) == IF v = "none" THEN NullId ELSE v

\* handleSubmit up to its first await
CadastroHandleSubmit ==
  /\ pagina = "ChecklistCadastro"
  /\ ~checklistCadastro.saving
  /\ LET pg == checklistCadastro IN
     checklistCadastro' =
       IF CadastroSemNome(pg.formData)
       THEN [pg EXCEPT !.toast = "error"]
       ELSE [pg EXCEPT !.saving = TRUE,
                       !.hs = [pc |-> "escrita",
                               editingId |-> pg.editingId,
                               payload |-> [nome |-> pg.formData.nome,
                                            contrato_id |-> CadastroContratoDoPayload(pg.formData.contrato_id)]]]
  /\ UNCHANGED <<outrasCadastro, supabase, pedido>>

\* the rows of the table after an update of row id or, with id = NullId, an insert
CadastroAposEscrita(tab, id, payload) ==
  LET linha == [existe |-> TRUE, nome |-> payload.nome, contrato_id |-> payload.contrato_id] IN
  IF id # NullId THEN [tab EXCEPT ![id] = IF tab[id].existe THEN linha ELSE @]
  ELSE LET novo == CHOOSE b \in DOMAIN tab : ~tab[b].existe IN [tab EXCEPT ![novo] = linha]

\* the table has room for the row (the table holds at most the rows of CadastroIds)
CadastroCabe(tab, id) == id # NullId \/ \E b \in DOMAIN tab : ~tab[b].existe

\* the backend performs the update or insert and answers with or without an error
CadastroBackend ==
  /\ pagina = "ChecklistCadastro"
  /\ checklistCadastro.hs.pc = "escrita"
  /\ \E ok \in BOOLEAN :
       LET hs == checklistCadastro.hs IN
       /\ ok => CadastroCabe(supabase.checklist, hs.editingId)
       /\ pedido' = [tabela |-> "checklist",
                     tipo |-> IF hs.editingId # NullId THEN "update" ELSE "insert",
                     id |-> hs.editingId,
                     payload |-> hs.payload,
                     ok |-> ok]
       /\ supabase' = IF ok
                      THEN [supabase EXCEPT !.checklist =
                              CadastroAposEscrita(supabase.checklist, hs.editingId, hs.payload)]
                      ELSE supabase
       /\ checklistCadastro' = [checklistCadastro EXCEPT !.hs = [pc |-> "resposta"]]
  /\ UNCHANGED outrasCadastro

\* handleSubmit resumes after the write: throw into catch and finally, or toast.success
\* and on to loadChecklists
CadastroRetoma ==
  /\ pagina = "ChecklistCadastro"
  /\ checklistCadastro.hs.pc = "resposta"
  /\ checklistCadastro' =
       IF ~pedido.ok
       THEN [checklistCadastro EXCEPT !.toast = "error", !.saving = FALSE, !.hs = HsIdle]
       ELSE [checklistCadastro EXCEPT !.toast = "success", !.hs = [pc |-> "recarga"]]
  /\ pedido' = SemPedido
  /\ UNCHANGED <<outrasCadastro, supabase>>

\* await loadChecklists() returns or throws; then resetForm() or catch, and finally
CadastroLoadChecklists ==
  /\ pagina = "ChecklistCadastro"
  /\ checklistCadastro.hs.pc = "recarga"
  /\ \E erro \in BOOLEAN :
       checklistCadastro' =
         IF erro
         THEN [checklistCadastro EXCEPT !.toast = "error", !.saving = FALSE, !.hs = HsIdle]
         ELSE [checklistCadastro EXCEPT !.formData = CadastroFormLimpo,
                                        !.editingId = NullId,
                                        !.saving = FALSE,
                                        !.hs = HsIdle]
  /\ UNCHANGED <<outrasCadastro, supabase, pedido>>

InitCadastro ==
  /\ CalcParado
  /\ ConcParado
  /\ pagina = "ChecklistCadastro"
  /\ supabase = SupabaseInicial
  /\ pedido = SemPedido
  /\ checklistRespostas = RespostasInicial
  /\ checklistItens = ItensInicial
  /\ outraSessao = HsIdle
  /\ execucaoChecklist = AgendaInicial
  /\ checklistExecucoes = ExecucoesInicial
  /\ checklist = ChecklistInicial
  /\ painel = PainelInicial
  /\ colaboradores = ColaboradoresInicial
  /\ checklistCadastro = CadastroInicial

NextCadastro ==
  \/ CadastroDigitaNome
  \/ CadastroSelecionaContrato
  \/ CadastroHandleEdit
  \/ CadastroResetForm
  \/ CadastroHandleSubmit
  \/ CadastroBackend
  \/ CadastroRetoma
  \/ CadastroLoadChecklists

SpecCadastro == InitCadastro /\ [][NextCadastro]_vars

(* ---------------- the four forms with required fields ---------------- *)
InitForms == InitExecucoes \/ InitRespostas \/ InitItens \/ InitChecklist

NextForms == NextExecucoes \/ NextRespostas \/ NextItens \/ NextChecklist

SpecForms == InitForms /\ [][NextForms]_vars

(* ---------------- the four forms that write one row of their table ---------------- *)
InitEscritas == InitExecucoes \/ InitRespostas \/ InitChecklist \/ InitCadastro

NextEscritas == NextExecucoes \/ NextRespostas \/ NextChecklist \/ NextCadastro

SpecEscritas == InitEscritas /\ [][NextEscritas]_vars

(* ---------------- the four forms whose saving flag is followed ---------------- *)
InitSalvar == InitItens \/ InitRespostas \/ InitAgenda \/ InitExecucoes

NextSalvar == NextItens \/ NextRespostas \/ NextAgenda \/ NextExecucoes

\* every backend request is answered and every await resumes
SalvarJusto ==
  /\ WF_vars(ItensConsulta) /\ WF_vars(ItensBackend) /\ WF_vars(ItensRetoma)
  /\ WF_vars(RespostasBackend) /\ WF_vars(RespostasRetoma)
  /\ WF_vars(AgendaBackend) /\ WF_vars(AgendaRetoma)
  /\ WF_vars(AgendaCreateExecutionItems) /\ WF_vars(AgendaLoadExecucoes)
  /\ WF_vars(ExecucoesBackend) /\ WF_vars(ExecucoesRetoma)

SpecSalvar == InitSalvar /\ [][NextSalvar]_vars /\ SalvarJusto

(* ---------------- the four forms that are reset after a submit ---------------- *)
InitReset == InitCadastro \/ InitAgenda \/ InitExecucoes \/ InitChecklist

NextReset == NextCadastro \/ NextAgenda \/ NextExecucoes \/ NextChecklist

SpecReset == InitReset /\ [][NextReset]_vars

(* ---------------- what the results are compared with ---------------- *)
\* s is a run of whitespace, then 1 2 x-or-X 3 6, then a run of whitespace
EhRotulo12x36(s) ==
  \E i \in 0..Len(s) :
    /\ Len(s) >= i + 5
    /\ \A k \in 1..i : s[k] \in WhiteSpace
    /\ \A k \in (i + 6)..Len(s) : s[k] \in WhiteSpace
    /\ s[i + 1] = "1"
    /\ s[i + 2] = "2"
    /\ s[i + 3] \in {"x", "X"}
    /\ s[i + 4] = "3"
    /\ s[i + 5] = "6"

SoEspacos(s) == \A k \in 1..Len(s) : s[k] \in WhiteSpace

Posto12x36 == posto.escala.t = "string" /\ EhRotulo12x36(posto.escala.s)

EfetivoPositivo == posto.efetivo_planejado.t = "number" /\ posto.efetivo_planejado.n > 0

Baseline == IF EfetivoPositivo THEN posto.efetivo_planejado.n ELSE 1

Necessario == IF Posto12x36 THEN (IF Baseline >= 4 THEN Baseline ELSE 4) ELSE Baseline

(* ---------------- claims ---------------- *)
\* C1: isEscala12x36 returns true exactly when the shift type is a string that,
\* trimmed and lower-cased, is "12x36"; absent, null, empty and whitespace-only
\* shift types give false.
C1_IsEscala12x36 ==
  op = "isEscala12x36" =>
    /\ ret = Return(Posto12x36)
    /\ (posto.escala.t # "string" => ret = Return(FALSE))
    /\ (posto.escala.t = "string" /\ SoEspacos(posto.escala.s) => ret = Return(FALSE))

C1_Witness ==
  /\ op = "isEscala12x36"
  /\ ret = Return(TRUE)
  /\ posto.escala.t = "string"
  /\ Len(posto.escala.s) = 7
  /\ posto.escala.s[4] = "X"

\* C2: for a 12x36 post getEfetivoPlanejadoAjustado returns max(baseline, 4), the
\* baseline being the planned headcount when it is present and > 0, and 1 otherwise.
C2_Piso12x36 ==
  op = "getEfetivoPlanejadoAjustado" /\ Posto12x36 =>
    ret = Return(IF Baseline >= 4 THEN Baseline ELSE 4)

C2_Witness ==
  /\ op = "getEfetivoPlanejadoAjustado"
  /\ Posto12x36
  /\ posto.efetivo_planejado = Num(6)
  /\ ret = Return(6)

\* C3: for a post that is not 12x36 and whose planned headcount is absent, null,
\* 0 or negative, getEfetivoPlanejadoAjustado returns 1.
C3_BaselineUm ==
  op = "getEfetivoPlanejadoAjustado" /\ ~Posto12x36 /\ ~EfetivoPositivo =>
    ret = Return(1)

C3_Witness ==
  /\ op = "getEfetivoPlanejadoAjustado"
  /\ ~Posto12x36
  /\ posto.efetivo_planejado.t = "number"
  /\ posto.efetivo_planejado.n < 0
  /\ ret = Return(1)

\* C4: for a post that is not 12x36 and whose planned headcount is a positive
\* integer n, getEfetivoPlanejadoAjustado returns n; the floor of 4 is not applied.
C4_SemPiso ==
  op = "getEfetivoPlanejadoAjustado" /\ ~Posto12x36 /\ EfetivoPositivo =>
    ret = Return(posto.efetivo_planejado.n)

C4_Witness ==
  /\ op = "getEfetivoPlanejadoAjustado"
  /\ ~Posto12x36
  /\ posto.escala.t = "string"
  /\ posto.efetivo_planejado = Num(2)
  /\ ret = Return(2)

\* C5: for every post getEfetivoPlanejadoAjustado returns an integer >= 1, and
\* >= 4 when the post is 12x36.
C5_Minimo ==
  op = "getEfetivoPlanejadoAjustado" =>
    /\ ret.kind = "return"
    /\ ret.value \in Nat
    /\ ret.value >= 1
    /\ (Posto12x36 => ret.value >= 4)

C5_Witness ==
  /\ op = "getEfetivoPlanejadoAjustado"
  /\ posto.escala = Undefined
  /\ posto.efetivo_planejado = Undefined
  /\ ret = Return(1)

\* C6: getCoberturaParaPosto returns efetivoNecessario = getEfetivoPlanejadoAjustado(post)
\* and efetivoConsiderado = min(active count, efetivoNecessario), which exceeds
\* neither efetivoNecessario nor the active count.
C6_Considerado ==
  op = "getCoberturaParaPosto" =>
    /\ ret.kind = "return"
    /\ Return(ret.value.efetivoNecessario) = getEfetivoPlanejadoAjustado(posto)
    /\ ret.value.efetivoConsiderado =
         (IF colaboradoresAtivos <= ret.value.efetivoNecessario
          THEN colaboradoresAtivos ELSE ret.value.efetivoNecessario)
    /\ ret.value.efetivoConsiderado <= ret.value.efetivoNecessario
    /\ ret.value.efetivoConsiderado <= colaboradoresAtivos

C6_Witness ==
  /\ op = "getCoberturaParaPosto"
  /\ ret.kind = "return"
  /\ colaboradoresAtivos > ret.value.efetivoNecessario
  /\ ret.value.efetivoConsiderado = ret.value.efetivoNecessario

\* C7: estaCoberto is true exactly when the active count is >= the adjusted
\* required headcount of the post.
C7_EstaCoberto ==
  op = "getCoberturaParaPosto" =>
    /\ ret.kind = "return"
    /\ ret.value.estaCoberto = (colaboradoresAtivos >= Necessario)

C7_Witness ==
  /\ op = "getCoberturaParaPosto"
  /\ ret.kind = "return"
  /\ colaboradoresAtivos = Necessario
  /\ ret.value.estaCoberto

\* C8: two calls of getCoberturaParaPosto on the same post with active counts that
\* are both >= the required headcount return identical records, with
\* efetivoConsiderado = efetivoNecessario and estaCoberto true.
C8_ExcessoInvisivel ==
  ( /\ op = "getCoberturaParaPosto"
    /\ referencia # None
    /\ referencia.op = "getCoberturaParaPosto"
    /\ referencia.posto = posto
    /\ referencia.ativos >= Necessario
    /\ colaboradoresAtivos >= Necessario ) =>
    /\ ret = referencia.ret
    /\ ret.kind = "return"
    /\ ret.value.efetivoConsiderado = ret.value.efetivoNecessario
    /\ ret.value.estaCoberto

C8_Witness ==
  /\ op = "getCoberturaParaPosto"
  /\ referencia # None
  /\ referencia.op = "getCoberturaParaPosto"
  /\ referencia.posto = posto
  /\ referencia.ativos >= Necessario
  /\ colaboradoresAtivos > referencia.ativos
  /\ ret = referencia.ret

\* C9: every call of the three functions on an input of the declared domain
\* returns a value; none ends in an error.
C9_Total ==
  op # "none" =>
    /\ ret.kind = "return"
    /\ (op = "isEscala12x36" => ret.value \in BOOLEAN)
    /\ (op = "getEfetivoPlanejadoAjustado" => ret.value \in Int)
    /\ (op = "getCoberturaParaPosto" =>
          /\ ret.value.efetivoNecessario \in Int
          /\ ret.value.efetivoConsiderado \in Int
          /\ ret.value.estaCoberto \in BOOLEAN)

C9_Witness ==
  /\ op = "getCoberturaParaPosto"
  /\ posto.escala = Null
  /\ posto.efetivo_planejado = Null
  /\ ret.kind = "return"

\* C10: a call leaves the post record passed to it unchanged, and a call with the
\* same function and the same arguments as an earlier call returns what the
\* earlier call returned, whatever calls were made in between.
chamada == <<colaboradoresAtivos, op, ret, entrada, referencia, chamadas>>

C11_Independente ==
  \A c \in Callers :
    frames[c].pc = "done" =>
      frames[c].ret = (IF frames[c].fn = "getEfetivoPlanejadoAjustado"
                       THEN getEfetivoPlanejadoAjustado(frames[c].posto)
                       ELSE getCoberturaParaPosto(frames[c].ativos, frames[c].posto))

C11_Witness ==
  \E c, d \in Callers :
    /\ c # d
    /\ frames[c].pc = "done"
    /\ frames[c].fn = "getCoberturaParaPosto"
    /\ frames[d].pc \in {"e15", "e16", "c23"}
    /\ frames[d].posto # frames[c].posto
    /\ baseEfetivo(frames[d].posto) # baseEfetivo(frames[c].posto)

\* C12: for a 12x36 post whose planned headcount is absent or <= 4 and an active
\* count a in 0..3, getCoberturaParaPosto returns efetivoNecessario = 4,
\* efetivoConsiderado = a and estaCoberto = false, also when a >= the planned headcount.
C12_PisoSobrepoe ==
  ( /\ op = "getCoberturaParaPosto"
    /\ Posto12x36
    /\ (posto.efetivo_planejado.t = "number" => posto.efetivo_planejado.n <= 4)
    /\ colaboradoresAtivos \in 0..3 ) =>
    ret = Return([efetivoNecessario |-> 4,
                  efetivoConsiderado |-> colaboradoresAtivos,
                  estaCoberto |-> FALSE])

C12_Witness ==
  /\ op = "getCoberturaParaPosto"
  /\ Posto12x36
  /\ posto.efetivo_planejado = Num(1)
  /\ colaboradoresAtivos = 3
  /\ ret = Return([efetivoNecessario |-> 4, efetivoConsiderado |-> 3, estaCoberto |-> FALSE])

\* C13: a post with shift type null or absent and planned headcount null or absent,
\* with 0 active collaborators, gives efetivoNecessario = 1, efetivoConsiderado = 0,
\* estaCoberto = false; and no post at all is covered with 0 active collaborators.
C13_SemConfiguracao ==
  op = "getCoberturaParaPosto" /\ colaboradoresAtivos = 0 =>
    /\ ret.kind = "return"
    /\ ~ret.value.estaCoberto
    /\ ( posto.escala \in {Undefined, Null} /\ posto.efetivo_planejado \in {Undefined, Null}
         => ret = Return([efetivoNecessario |-> 1,
                          efetivoConsiderado |-> 0,
                          estaCoberto |-> FALSE]) )

C13_Witness ==
  /\ op = "getCoberturaParaPosto"
  /\ colaboradoresAtivos = 0
  /\ posto.escala = Null
  /\ posto.efetivo_planejado = Null
  /\ ret = Return([efetivoNecessario |-> 1, efetivoConsiderado |-> 0, estaCoberto |-> FALSE])

\* C14: the ChecklistRespostas page never sends an insert or update to
\* checklist_respostas for an execution whose status in the backend is "concluido"
\* when the write is made.
C14_NuncaEmConcluida ==
  pedido.tabela = "checklist_respostas" => pedido.statusExecucao # "concluido"

\* C15: no two rows of checklist_itens written by handleSubmit carry the same ordem,
\* also when submits of two sessions run at the same time.
C15_OrdemUnica ==
  \A i, j \in ItemIds :
    ( /\ i # j
      /\ supabase.checklist_itens[i] # 0
      /\ supabase.checklist_itens[j] # 0 )
    => supabase.checklist_itens[i] # supabase.checklist_itens[j]

\* C16: gerarOrdemUnica sends at most 50 count queries; it returns a candidate of
\* 1..999999 whose count was 0 as soon as one is found, asks again only while fewer than
\* 50 queries were sent, and when it fails handleSubmit sends no insert or update, keeps
\* formData and editingId and sets saving back to false.
C16_GerarOrdemTermina ==
  /\ [](pagina = "ChecklistItens" /\ checklistItens.hs.pc \in {"consulta", "escrita"}
          => checklistItens.hs.tentativa \in 1..MAX_TENTATIVAS)
  /\ [][(pagina = "ChecklistItens" /\ checklistItens.hs.pc = "consulta"
           /\ checklistItens'.hs # checklistItens.hs)
        => /\ checklistItens'.hs.pc = "escrita" =>
                /\ checklistItens'.hs.payload.ordem \in ORDEM_MIN..ORDEM_MAX
                /\ ContaOrdem(supabase.checklist_itens, checklistItens'.hs.payload.ordem) = 0
                /\ checklistItens'.hs.tentativa = checklistItens.hs.tentativa
           /\ checklistItens'.hs.pc = "consulta" =>
                /\ checklistItens.hs.tentativa < MAX_TENTATIVAS
                /\ checklistItens'.hs.tentativa = checklistItens.hs.tentativa + 1
           /\ checklistItens'.hs.pc = "idle" =>
                /\ pedido = SemPedido
                /\ pedido' = SemPedido
                /\ supabase' = supabase
                /\ checklistItens'.formData = checklistItens.formData
                /\ checklistItens'.editingId = checklistItens.editingId
                /\ checklistItens'.saving = FALSE
           /\ checklistItens'.hs.pc \in {"escrita", "consulta", "idle"}]_vars

\* the 50th count query is in flight while an ordem of the range is taken
C16_Witness ==
  /\ pagina = "ChecklistItens"
  /\ checklistItens.hs.pc = "consulta"
  /\ checklistItens.hs.tentativa = MAX_TENTATIVAS
  /\ \E k \in OrdensAleatorias : ContaOrdem(supabase.checklist_itens, k) > 0

\* C17: a write to execucao_checklist sent by handleSubmit carries the id of a supervisor
\* or null as supervisor_id, never the sentinel "none" and never the empty string.
C17_SupervisorNulo ==
  pedido.tabela = "execucao_checklist" => pedido.payload.supervisor_id \in {NullId} \cup SupervisorIds

\* a required field of the form is empty
ExecucoesCampoVazio ==
  \/ checklistExecucoes.formData.checklist_id = ""
  \/ checklistExecucoes.formData.colaborador_id = ""
  \/ checklistExecucoes.formData.data_execucao = ""

RespostasCampoVazio == checklistRespostas.formData.execucao_id = ""

ItensCampoVazio ==
  checklistItens.formData.checklist_id = "" \/ SoEspacos(checklistItens.formData.descricao)

ChecklistCampoVazio == SoEspacos(checklist.formData.nome)

\* C18: in the four forms, while a required field is empty and no save is running, no
\* step starts a save or sends a backend request, and the step of handleSubmit that
\* rejects the form (it shows the warning) leaves formData, editingId, saving and the
\* backend as they were.
C18_CamposObrigatorios ==
  /\ [][(pagina = "ChecklistExecucoes" /\ ~checklistExecucoes.saving /\ ExecucoesCampoVazio)
          => /\ ~checklistExecucoes'.saving
             /\ checklistExecucoes'.hs = HsIdle
             /\ pedido' = pedido]_vars
  /\ [][(pagina = "ChecklistRespostas" /\ ~checklistRespostas.saving /\ RespostasCampoVazio)
          => /\ ~checklistRespostas'.saving
             /\ checklistRespostas'.hs = HsIdle
             /\ pedido' = pedido]_vars
  /\ [][(pagina = "ChecklistItens" /\ ~checklistItens.saving /\ ItensCampoVazio)
          => /\ ~checklistItens'.saving
             /\ checklistItens'.hs = HsIdle
             /\ pedido' = pedido]_vars
  /\ [][(pagina = "Checklist" /\ ~checklist.saving /\ ChecklistCampoVazio)
          => /\ ~checklist'.saving
             /\ checklist'.hs = HsIdle
             /\ pedido' = pedido]_vars
  /\ [][(checklistExecucoes'.toast = "warning" /\ checklistExecucoes.toast # "warning")
          => [checklistExecucoes' EXCEPT !.toast = checklistExecucoes.toast] = checklistExecucoes
             /\ ~checklistExecucoes.saving /\ pedido' = pedido /\ supabase' = supabase]_vars
  /\ [][(checklistRespostas'.toast = "warning" /\ checklistRespostas.toast # "warning")
          => [checklistRespostas' EXCEPT !.toast = checklistRespostas.toast] = checklistRespostas
             /\ ~checklistRespostas.saving /\ pedido' = pedido /\ supabase' = supabase]_vars
  /\ [][(checklistItens'.toast = "warning" /\ checklistItens.toast # "warning")
          => [checklistItens' EXCEPT !.toast = checklistItens.toast] = checklistItens
             /\ ~checklistItens.saving /\ pedido' = pedido /\ supabase' = supabase]_vars
  /\ [][(checklist'.toast = "warning" /\ checklist.toast # "warning")
          => [checklist' EXCEPT !.toast = checklist.toast] = checklist
             /\ ~checklist.saving /\ pedido' = pedido /\ supabase' = supabase]_vars

\* the item form was rejected with a checklist chosen and a descricao of blanks only
C18_Witness ==
  /\ pagina = "ChecklistItens"
  /\ checklistItens.toast = "warning"
  /\ checklistItens.formData.checklist_id # ""
  /\ checklistItens.formData.descricao # <<>>
  /\ SoEspacos(checklistItens.formData.descricao)
  /\ ~checklistItens.saving
  /\ checklistItens.hs = HsIdle
  /\ pedido = SemPedido

\* the executions of the loaded list that are concluded and dated in the selected month
ConcluidasNoMes ==
  {i \in 1..Len(painel.execucoes) :
     /\ painel.execucoes[i].status = "concluido"
     /\ painel.execucoes[i].data_execucao # Null
     /\ format(painel.execucoes[i].data_execucao, painel.fuso) = painel.selectedMonth}

\* C19: the counter is the number of executions of the loaded list that are concluded and
\* whose data_execucao is in the selected month; and it is 0 for any list when no month
\* is selected.
C19_Contador ==
  /\ pagina = "ChecklistExecucoesPainel" =>
       concludedCountForSelectedMonth(painel.execucoes, painel.selectedMonth, painel.fuso)
         = Cardinality(ConcluidasNoMes)
  /\ \A lista \in ListasExecucoes, fuso \in Fusos :
       concludedCountForSelectedMonth(lista, MesVazio, fuso) = 0

\* one concluded execution of the selected month is counted and an execution of the same
\* month that is not concluded is not
C19_Witness ==
  /\ pagina = "ChecklistExecucoesPainel"
  /\ Len(painel.execucoes) = 2
  /\ Cardinality(ConcluidasNoMes) = 1
  /\ concludedCountForSelectedMonth(painel.execucoes, painel.selectedMonth, painel.fuso) = 1
  /\ \E i \in 1..2 :
       /\ painel.execucoes[i].status # "concluido"
       /\ painel.execucoes[i].data_execucao # Null
       /\ format(painel.execucoes[i].data_execucao, painel.fuso) = painel.selectedMonth

UnidadesCarregadas == colaboradores.unidades # Undefined /\ colaboradores.unidades.length > 0

\* C20: a step that opens the collaborator form without a collaborator to edit happens
\* only with the active units loaded and non-empty; handleNewColaborador opens the form
\* in that case and otherwise keeps showForm, sets missingEntities to <<"Unidades">> and
\* shows the missing-requirements dialog.
C20_Requisitos ==
  /\ [][(colaboradores'.showForm /\ ~colaboradores.showForm
           /\ colaboradores'.editingColaborador = colaboradores.editingColaborador)
        => UnidadesCarregadas]_vars
  /\ [][handleNewColaborador
        => IF UnidadesCarregadas
           THEN /\ colaboradores'.showForm
                /\ colaboradores'.showRequisitosMissing = colaboradores.showRequisitosMissing
                /\ colaboradores'.missingEntities = colaboradores.missingEntities
           ELSE /\ colaboradores'.showForm = colaboradores.showForm
                /\ colaboradores'.missingEntities = <<"Unidades">>
                /\ colaboradores'.showRequisitosMissing]_vars

\* the units were loaded as an empty list and the missing-requirements dialog is shown
C20_Witness ==
  /\ pagina = "Colaboradores"
  /\ colaboradores.unidades = Arr(0)
  /\ colaboradores.showRequisitosMissing
  /\ colaboradores.missingEntities = <<"Unidades">>
  /\ ~colaboradores.showForm

\* a submit that passed validation (it set saving) has one write waiting to be sent, for
\* the editingId the form had at the submit
UmaEscritaPreparada(antes, depois) ==
  (~antes.saving /\ depois.saving)
    => /\ depois.hs.pc = "escrita"
       /\ depois.hs.editingId = antes.editingId

\* a write sent to the table is the one write of the submit in progress: an update of the
\* row editingId or, with no editingId, an insert; after it no write of the submit is left
EscritaDoSubmit(tabela, antes, depois) ==
  (pedido' # pedido /\ pedido'.tabela = tabela)
    => /\ antes.hs.pc = "escrita"
       /\ depois.hs.pc = "resposta"
       /\ pedido'.id = antes.hs.editingId
       /\ pedido'.tipo = (IF antes.hs.editingId # NullId THEN "update" ELSE "insert")

\* an update changes no row of the table other than the row id
SoALinha(antes, depois, id) ==
  \A r \in DOMAIN antes : (r # id /\ id # NullId) => depois[r] = antes[r]

\* C21: in the four forms each submit that passes validation sends exactly one write to
\* the page's table, an update of the row editingId of the submit or an insert when there
\* is none, and an update changes no other row.
C21_UmaEscrita ==
  /\ [][UmaEscritaPreparada(checklistExecucoes, checklistExecucoes')]_vars
  /\ [][UmaEscritaPreparada(checklistRespostas, checklistRespostas')]_vars
  /\ [][UmaEscritaPreparada(checklist, checklist')]_vars
  /\ [][UmaEscritaPreparada(checklistCadastro, checklistCadastro')]_vars
  /\ [][EscritaDoSubmit("checklist_execucoes", checklistExecucoes, checklistExecucoes')]_vars
  /\ [][EscritaDoSubmit("checklist_respostas", checklistRespostas, checklistRespostas')]_vars
  /\ [][EscritaDoSubmit("checklists", checklist, checklist')]_vars
  /\ [][EscritaDoSubmit("checklist", checklistCadastro, checklistCadastro')]_vars
  /\ [][pedido' # pedido /\ pedido'.tabela = "checklists"
          => SoALinha(supabase.checklists, supabase'.checklists, pedido'.id)]_vars
  /\ [][pedido' # pedido /\ pedido'.tabela = "checklist"
          => SoALinha(supabase.checklist, supabase'.checklist, pedido'.id)]_vars

\* C22: in the four forms, when every backend request is answered, a saving flag that
\* handleSubmit set to true is eventually false again.
C22_SavingLiberado ==
  /\ checklistItens.saving ~> ~checklistItens.saving
  /\ checklistRespostas.saving ~> ~checklistRespostas.saving
  /\ execucaoChecklist.saving ~> ~execucaoChecklist.saving
  /\ checklistExecucoes.saving ~> ~checklistExecucoes.saving

\* the step in which a submit whose write was answered completes
SubmitCompleta(antes, depois) ==
  antes.hs.pc \in {"resposta", "itens", "recarga"} /\ depois.hs.pc = "idle"

\* the write of the submit in progress succeeded
EscritaSucedeu(antes) == IF antes.hs.pc = "resposta" THEN pedido.ok ELSE TRUE

\* when the submit completes the form has its initial values and no editingId if the write
\* succeeded, and otherwise is as it was, with an error reported
ResetSeSucesso(antes, depois, inicial) ==
  SubmitCompleta(antes, depois)
    => IF EscritaSucedeu(antes)
       THEN /\ depois.formData = inicial
            /\ depois.editingId = NullId
       ELSE /\ depois.formData = antes.formData
            /\ depois.editingId = antes.editingId
            /\ depois.toast = "error"

\* C23: in the four forms, when a submit completes, the form is reset to its initial
\* values with editingId null exactly when the write succeeded; after a failed write
\* formData and editingId are unchanged and an error is reported.
C23_ResetSeSucesso ==
  /\ [][ResetSeSucesso(checklistCadastro, checklistCadastro', CadastroFormInicial)]_vars
  /\ [][ResetSeSucesso(execucaoChecklist, execucaoChecklist', AgendaFormInicial)]_vars
  /\ [][ResetSeSucesso(checklistExecucoes, checklistExecucoes', ExecucoesInitialForm)]_vars
  /\ [][ResetSeSucesso(checklist, checklist', ChecklistInitialForm)]_vars

====
